---- MODULE Spec2Model ----
(***************************************************************************)
(* Model of the wasted-lines-detector GitHub Action.                       *)
(*                                                                         *)
(*   SpecScan : getDiffPosition(patch, lineNumber), one step per patch     *)
(*              line (src/index.js:31-52, the same text at 271-292 and in  *)
(*              src/unnamed/part_002:31-59).                               *)
(*   SpecPost : postReviewComments(octokit, comments, repo, prNumber) of   *)
(*              src/index.js:125-177 ("basic") and of                      *)
(*              src/unnamed/part_002:160-230 ("fallback", which anchors a  *)
(*              comment without a line at line 1).                         *)
(*   SpecCleanup : postReviewComments of src/index.js:394-451 ("cleanup"), *)
(*              which calls deletePreviousComments (src/index.js:366-392)  *)
(*              before it asks for the files of the pull request.          *)
(*   SpecRun  : run, analyzeFiles, analyzeCode and generateCommentBody of  *)
(*              src/unnamed/part_001:7-215 ("ast": syntax-tree analysis,   *)
(*              flat report) and of src/unnamed/part_001:343-606           *)
(*              ("aiSwitch": the use_ai_tool switch, report grouped by     *)
(*              file), of src/index.js:7-238 ("basic": GitHub App sign-in, *)
(*              one remote suggestion for each file, inline review through *)
(*              postReviewComments) and of src/unnamed/part_000:7-98       *)
(*              ("direct": the same analysis, run builds the review).      *)
(*   SpecAnalyze : analyzeCode called several times on one content: the    *)
(*              regular-expression variant of                              *)
(*              src/wasted-lines-detector/index.js:61-83 (the same text in *)
(*              src/unnamed/part_003:127-149) and the syntax-tree and line *)
(*              variant of src/unnamed/part_001:118-215.                   *)
(*                                                                         *)
(* A patch text is a sequence of tokens: the newline character or the      *)
(* content of one non-empty line.  The code looks at a line in three ways  *)
(* only (startsWith('@@'), the hunk-header regular expression and          *)
(* startsWith('-')), so the content of a line is recorded as its leading   *)
(* characters and, for a hunk header, the new-file start and which of the  *)
(* two counts the header carries.                                          *)
(***************************************************************************)
EXTENDS Integers, Sequences, FiniteSets, TLC

VARIABLES
    patch,          \* getDiffPosition: the argument patch
    lineNumber,     \* getDiffPosition: the argument lineNumber
    lines,          \* getDiffPosition: patch.split('\n')
    idx,            \* getDiffPosition: index of the next element of lines
    diffPosition,   \* getDiffPosition: let diffPosition
    currentLine,    \* getDiffPosition: let currentLine
    result,         \* getDiffPosition: the value returned
    pc,             \* position of the running function
    variant,            \* postReviewComments: which variant of the source runs
    comments,           \* postReviewComments: the argument comments
    pullRequestDiff,    \* postReviewComments: data of pulls.listFiles
    formattedComments,  \* postReviewComments: const formattedComments
    reviews,            \* the comments lists handed to pulls.createReview
    caught,             \* the call whose error the catch block logged
    inputs,         \* run: which inputs and credentials are given, and
                    \* whether the event carries a pull request
    repo,           \* the content of each file at the head of the pull request
    files,          \* run: files.data, the answer of pulls.listFiles
    fileIdx,        \* analyzeFiles: index of the next file of the for loop
    commentBody,    \* run: const commentBody, as the lines of the report
    issueComments,  \* the bodies handed to issues.createComment
    failed,         \* core.setFailed was called
    fetchLog,       \* the paths handed to repos.getContent, in call order
    requestLog,     \* the paths whose content was sent to the remote
                    \* suggestion service, in call order
    subject,        \* analyzeCode: the arguments content and filename, and
                    \* which variant of analyzeCode is called
    outputs,        \* analyzeCode: the lists returned by the calls so far
    lastIndex,      \* lastIndex of the three regular expression objects
                    \* after the last call
    previousComments,   \* deletePreviousComments: the answer of
                        \* pulls.listReviewComments
    botComments,        \* deletePreviousComments: const botComments
    deleted,            \* the ids handed to pulls.deleteReviewComment calls
                        \* that succeeded, in call order
    deleteError         \* the call whose error the catch block of
                        \* deletePreviousComments logged

scanVars == <<patch, lineNumber, lines, idx, diffPosition, currentLine, result>>
postVars == <<variant, comments, pullRequestDiff, formattedComments, reviews, caught>>
runVars == <<inputs, repo, files, fileIdx, commentBody, issueComments, failed,
             fetchLog, requestLog>>
analyzeVars == <<subject, outputs, lastIndex>>
cleanupVars == <<previousComments, botComments, deleted, deleteError>>
vars == <<scanVars, postVars, runVars, analyzeVars, cleanupVars, pc>>

\* ------------------------------------------------------------- bounds
MaxLines == 3
MaxStart == 3
MaxSourceLine == 5
MaxComments == 2
MaxCommentLine == 3
MaxFiles == 3

\* ------------------------------------------------------- JavaScript values
\* null, as returned by getDiffPosition: no diff position is negative.
NULL == -1
\* undefined, as the line of a comment built without one: no line is negative.
UNDEFINED == -2

\* ------------------------------------------------------------ patch lines
Content(first, newStart, oldCount, newCount) ==
    [first |-> first, newStart |-> newStart, oldCount |-> oldCount, newCount |-> newCount]

NL == Content("\n", 0, FALSE, FALSE)
EmptyLine == Content("", 0, FALSE, FALSE)
ContextLine == Content(" ", 0, FALSE, FALSE)
AddedLine == Content("+", 0, FALSE, FALSE)
RemovedLine == Content("-", 0, FALSE, FALSE)
\* '\ No newline at end of file'
NoNewlineMarker == Content("\\", 0, FALSE, FALSE)
\* a line of the extended header, such as 'diff --git a/f b/f' or 'index 1..2'
HeaderText == Content("d", 0, FALSE, FALSE)
\* '@@ -a,b +n,c @@'
Hunk(n) == Content("@@", n, TRUE, TRUE)
\* '@@ -a +n @@': the counts are left out when they are 1
HunkNoCount(n) == Content("@@", n, FALSE, FALSE)

NewStarts == 1..MaxStart

LineAlphabet ==
    {Hunk(n) : n \in NewStarts} \cup {HunkNoCount(n) : n \in NewStarts}
    \cup {ContextLine, AddedLine, RemovedLine, NoNewlineMarker, EmptyLine, HeaderText}

\* The scenario of the specification:
\* '@@ -1,3 +1,4 @@\n context\n+added1\n+added2\n context'
ScenarioLines == <<Hunk(1), ContextLine, AddedLine, AddedLine, ContextLine>>

\* Two hunks, each replacing lines, both headers with counts:
\* '@@ -1,2 +1,2 @@\n-a\n+b\n@@ -3,2 +3,2 @@\n-c\n+d' up to the counts.
TwoHunkLines == <<Hunk(1), RemovedLine, AddedLine, Hunk(3), RemovedLine, AddedLine>>
\* The second hunk replaces one line by one line, so that its header carries
\* no counts: '@@ -1,1 +1,2 @@\n ctx\n+new\n@@ -3 +4 @@\n-old\n+new'.
ShortSecondHunkLines ==
    <<Hunk(1), ContextLine, AddedLine, HunkNoCount(4), RemovedLine, AddedLine>>

ScenarioSeqs == {ScenarioLines, TwoHunkLines, ShortSecondHunkLines}

LineSeqs ==
    UNION {[1..n -> LineAlphabet] : n \in 1..MaxLines} \cup ScenarioSeqs

\* The text whose lines are ls: the lines joined by newline characters.
RECURSIVE Join(_)
Join(ls) ==
    IF Len(ls) = 0 THEN <<>>
    ELSE LET head == IF ls[1] = EmptyLine THEN <<>> ELSE <<ls[1]>>
         IN IF Len(ls) = 1 THEN head ELSE head \o <<NL>> \o Join(Tail(ls))

StringPatch(text) == [type |-> "string", text |-> text]
UndefinedPatch == [type |-> "undefined", text |-> <<>>]
NullPatch == [type |-> "null", text |-> <<>>]

Patches == {StringPatch(Join(ls)) : ls \in LineSeqs} \cup {UndefinedPatch, NullPatch}

\* ------------------------------------------------------- getDiffPosition
\* !patch
FalsyNoEmptyString(p) == p.type \in {"undefined", "null"}
Falsy(p) == p.type \in {"undefined", "null"} \/ p.text = <<>>

\* patch.split('\n'): cur is the line being read
RECURSIVE SplitFrom(_, _)
SplitFrom(text, cur) ==
    IF Len(text) = 0 THEN <<cur>>
    ELSE IF text[1] = NL THEN <<cur>> \o SplitFrom(Tail(text), EmptyLine)
    ELSE SplitFrom(Tail(text), text[1])

Split(text) == SplitFrom(text, EmptyLine)

\* line.startsWith('@@'), line.startsWith('-')
StartsWithAtAt(line) == line.first = "@@"
StartsWithMinus(line) == line.first = "-"

\* line.match(/@@ -\d+,\d+ \+(\d+),(\d+) @@/): both counts must be present
HeaderMatches(line) == line.first = "@@" /\ line.oldCount /\ line.newCount
\* parseInt(match[1], 10)
HeaderNewStart(line) == line.newStart

\* One iteration of for (const line of lines): the counters after it and
\* whether it returned.
LineStepCountsHeader(line, dp, cl, ln) ==
    IF StartsWithAtAt(line)
    THEN [diffPosition |-> dp + 1,
          currentLine |-> IF HeaderMatches(line) THEN HeaderNewStart(line) ELSE cl,
          returned |-> FALSE]
    ELSE IF ~StartsWithMinus(line)
    THEN [diffPosition |-> dp + 1,
          currentLine |-> IF cl = ln THEN cl ELSE cl + 1,
          returned |-> cl = ln]
    ELSE [diffPosition |-> dp, currentLine |-> cl, returned |-> FALSE]

LineStepCountsLaterHeader(line, dp, cl, ln) ==
    IF StartsWithAtAt(line)
    THEN [diffPosition |-> IF dp > 0 THEN dp + 1 ELSE dp,
          currentLine |-> IF HeaderMatches(line) THEN HeaderNewStart(line) ELSE cl,
          returned |-> FALSE]
    ELSE IF ~StartsWithMinus(line)
    THEN [diffPosition |-> dp + 1,
          currentLine |-> IF cl = ln THEN cl ELSE cl + 1,
          returned |-> cl = ln]
    ELSE [diffPosition |-> dp, currentLine |-> cl, returned |-> FALSE]

LineStepResetsPerHunk(line, dp, cl, ln) ==
    IF StartsWithAtAt(line)
    THEN [diffPosition |-> 0,
          currentLine |-> IF HeaderMatches(line) THEN HeaderNewStart(line) ELSE cl,
          returned |-> FALSE]
    ELSE IF ~StartsWithMinus(line)
    THEN [diffPosition |-> dp + 1,
          currentLine |-> IF cl = ln THEN cl ELSE cl + 1,
          returned |-> cl = ln]
    ELSE [diffPosition |-> dp, currentLine |-> cl, returned |-> FALSE]

LineStep(line, dp, cl, ln) ==
    IF StartsWithAtAt(line)
    THEN [diffPosition |-> dp,
          currentLine |-> IF HeaderMatches(line) THEN HeaderNewStart(line) ELSE cl,
          returned |-> FALSE]
    ELSE IF ~StartsWithMinus(line)
    THEN [diffPosition |-> dp + 1,
          currentLine |-> IF cl = ln THEN cl ELSE cl + 1,
          returned |-> cl = ln]
    ELSE [diffPosition |-> dp, currentLine |-> cl, returned |-> FALSE]

\* The loop from element i on, as a function of the counters.
RECURSIVE ScanFrom(_, _, _, _, _)
ScanFrom(ls, i, dp, cl, ln) ==
    IF i > Len(ls) THEN NULL
    ELSE LET s == LineStep(ls[i], dp, cl, ln)
         IN IF s.returned THEN s.diffPosition
            ELSE ScanFrom(ls, i + 1, s.diffPosition, s.currentLine, ln)

\* getDiffPosition(patch, lineNumber) as a value
getDiffPosition(p, ln) ==
    IF Falsy(p) THEN NULL ELSE ScanFrom(Split(p.text), 1, 0, 0, ln)

\* getDiffPosition of src/unnamed/part_002:31-59, translated from its own
\* text: one iteration of its loop, the loop, and the function as a value.
LineStepPart002(line, dp, cl, ln) ==
    IF StartsWithAtAt(line)
    THEN [diffPosition |-> dp,
          currentLine |-> IF HeaderMatches(line) THEN HeaderNewStart(line) ELSE cl,
          returned |-> FALSE]
    ELSE IF ~StartsWithMinus(line)
    THEN [diffPosition |-> dp + 1,
          currentLine |-> IF cl = ln THEN cl ELSE cl + 1,
          returned |-> cl = ln]
    ELSE [diffPosition |-> dp, currentLine |-> cl, returned |-> FALSE]

RECURSIVE ScanFromPart002(_, _, _, _, _)
ScanFromPart002(ls, i, dp, cl, ln) ==
    IF i > Len(ls) THEN NULL
    ELSE LET s == LineStepPart002(ls[i], dp, cl, ln)
         IN IF s.returned THEN s.diffPosition
            ELSE ScanFromPart002(ls, i + 1, s.diffPosition, s.currentLine, ln)

getDiffPositionPart002(p, ln) ==
    IF Falsy(p) THEN NULL ELSE ScanFromPart002(Split(p.text), 1, 0, 0, ln)

\* ---------------------------------------------------------------- SpecScan
\* The three regular expressions of the regular-expression analyzeCode.
Patterns == {"ifElsePattern", "duplicateVarPattern", "longLoopPattern"}
\* lastIndex of the objects that evaluating the three literals creates
NewRegExps == [p \in Patterns |-> 0]
\* no call of analyzeCode is under way
NoSubject == [analyzer |-> "none", filename |-> [stem |-> "", ext |-> ""], content |-> <<>>]

\* Every input and credential given, no switch set.
AllInputs ==
    [token |-> TRUE, pr |-> TRUE, useAiTool |-> FALSE,
     appId |-> TRUE, privateKey |-> TRUE, aiApiKey |-> TRUE]

InitScan ==
    /\ patch \in Patches
    /\ lineNumber \in 0..MaxSourceLine
    /\ lines = <<>>
    /\ idx = 0
    /\ diffPosition = 0
    /\ currentLine = 0
    /\ result = NULL
    /\ pc = "entry"
    /\ variant = "basic"
    /\ comments = <<>>
    /\ pullRequestDiff = <<>>
    /\ formattedComments = <<>>
    /\ reviews = <<>>
    /\ caught = "none"
    /\ inputs = AllInputs
    /\ repo = <<>>
    /\ files = <<>>
    /\ fileIdx = 0
    /\ commentBody = <<>>
    /\ issueComments = <<>>
    /\ failed = FALSE
    /\ fetchLog = <<>>
    /\ requestLog = <<>>
    /\ subject = NoSubject
    /\ outputs = <<>>
    /\ lastIndex = NewRegExps
    /\ previousComments = <<>>
    /\ botComments = <<>>
    /\ deleted = <<>>
    /\ deleteError = "none"

\* if (!patch) return null; const lines = patch.split('\n'); the two counters
Enter ==
    /\ pc = "entry"
    /\ IF Falsy(patch)
       THEN /\ pc' = "done"
            /\ result' = NULL
            /\ UNCHANGED <<lines, idx>>
       ELSE IF patch.type # "string"
       THEN \* undefined.split: a TypeError leaves the function
            /\ pc' = "threw"
            /\ UNCHANGED <<lines, idx, result>>
       ELSE /\ pc' = "loop"
            /\ lines' = Split(patch.text)
            /\ idx' = 1
            /\ UNCHANGED result
    /\ diffPosition' = 0
    /\ currentLine' = 0
    /\ UNCHANGED <<analyzeVars, cleanupVars, patch, lineNumber, postVars, runVars>>

\* one iteration of the for loop
ScanLine ==
    /\ pc = "loop"
    /\ idx <= Len(lines)
    /\ LET s == LineStep(lines[idx], diffPosition, currentLine, lineNumber)
       IN /\ diffPosition' = s.diffPosition
          /\ currentLine' = s.currentLine
          /\ IF s.returned
             THEN /\ result' = s.diffPosition
                  /\ pc' = "done"
                  /\ UNCHANGED idx
             ELSE /\ idx' = idx + 1
                  /\ UNCHANGED <<result, pc>>
    /\ UNCHANGED <<analyzeVars, cleanupVars, patch, lineNumber, lines, postVars, runVars>>

\* the loop is over: return null
ScanEnd ==
    /\ pc = "loop"
    /\ idx > Len(lines)
    /\ result' = NULL
    /\ pc' = "done"
    /\ UNCHANGED <<analyzeVars, cleanupVars, patch, lineNumber, lines, idx, diffPosition, currentLine, postVars, runVars>>

NextScan == Enter \/ ScanLine \/ ScanEnd

SpecScan == InitScan /\ [][NextScan]_vars

\* ------------------------------------------------------ postReviewComments
\* A file name is the text before its extension and the extension, the part
\* that endsWith() tests.
Path(stem, ext) == [stem |-> stem, ext |-> ext]
\* comment.path when the comment was built without one
NoPath == Path("", "")

PostPaths == {Path("a", ".js"), Path("b", ".py"), Path("c", ".js")}
PrFileNames == {Path("a", ".js"), Path("b", ".py")}

\* file.patch of the files of a pull request: none for a binary file; the
\* last one replaces the only line of a file ('@@ -1 +1 @@').
PrPatches ==
    {UndefinedPatch,
     StringPatch(Join(<<Hunk(1), AddedLine, AddedLine>>)),
     StringPatch(Join(<<Hunk(2), RemovedLine, AddedLine, ContextLine>>)),
     StringPatch(Join(<<HunkNoCount(1), RemovedLine, AddedLine>>))}

PrFile(name, p) == [filename |-> name, patch |-> p]
PrFiles == {PrFile(n, p) : n \in PrFileNames, p \in PrPatches}
\* The answers of pulls.listFiles: a pull request lists a file once.
PrFileLists ==
    {fs \in UNION {[1..n -> PrFiles] : n \in 1..Cardinality(PrFileNames)} :
        \A i, j \in 1..Len(fs) : i # j => fs[i].filename # fs[j].filename}

Comment(path, line, body) == [path |-> path, line |-> line, body |-> body]
CommentLines == {UNDEFINED} \cup 0..MaxCommentLine
\* The texts of the comments of one call, each comment with a text of its own.
Bodies == <<"body 1", "body 2", "body 3", "body 4">>
Anchors == {<<p, l>> : p \in PostPaths \cup {NoPath}, l \in CommentLines}
CommentLists ==
    {[i \in 1..Len(as) |-> Comment(as[i][1], as[i][2], Bodies[i])] :
        as \in UNION {[1..n -> Anchors] : n \in 0..MaxComments}}

ReviewComment(path, position, body) == [path |-> path, position |-> position, body |-> body]
\* null, as returned by the callback of comments.map
NullComment == ReviewComment(NoPath, NULL, "null")

\* pullRequestDiff.find(f => f.filename === comment.path): the index of the
\* first such file, 0 for undefined
Find(prFiles, path) ==
    LET hits == {i \in 1..Len(prFiles) : prFiles[i].filename = path}
    IN IF hits = {} THEN 0 ELSE CHOOSE i \in hits : \A j \in hits : i <= j

\* !comment.path, !comment.line
NoPathGiven(c) == c.path = NoPath
NoLineGiven(c) == c.line = UNDEFINED \/ c.line = 0

\* The comment after the callback of comments.map has run on it: the fallback
\* variant sets comment.line = 1 on a comment of a file of the pull request
\* that has no line.
AfterMap(v, prFiles, c) ==
    IF v = "fallback" /\ ~NoPathGiven(c) /\ Find(prFiles, c.path) # 0 /\ NoLineGiven(c)
    THEN [c EXCEPT !.line = 1]
    ELSE c

\* The body of the review comment: comment.body in the basic variant, a
\* template over comment.originalCode, comment.optimizedCode and
\* comment.complexity in the fallback variant.
ReviewBody(v, c) == IF v = "fallback" THEN "template" ELSE c.body

\* The callback of comments.map.
FormatCommentKeepsNull(v, prFiles, c) ==
    IF v = "fallback" /\ NoPathGiven(c) THEN NullComment
    ELSE IF Find(prFiles, c.path) = 0 THEN NullComment
    ELSE ReviewComment(c.path,
                       getDiffPosition(prFiles[Find(prFiles, c.path)].patch,
                                       AfterMap(v, prFiles, c).line),
                       ReviewBody(v, c))

FormatComment(v, prFiles, c) ==
    IF v = "fallback" /\ NoPathGiven(c) THEN NullComment
    ELSE IF Find(prFiles, c.path) = 0 THEN NullComment
    ELSE LET position == getDiffPosition(prFiles[Find(prFiles, c.path)].patch,
                                         AfterMap(v, prFiles, c).line)
         IN IF position = NULL THEN NullComment
            ELSE ReviewComment(c.path, position, ReviewBody(v, c))

\* comments.map(...).filter(comment => comment !== null)
NotNull(c) == c # NullComment
FormatAll(v, prFiles, cs) ==
    SelectSeq([i \in 1..Len(cs) |-> FormatComment(v, prFiles, cs[i])], NotNull)

\* Where an error thrown inside the try block leaves the function: the catch
\* block logs it and the function returns.
AfterThrowEscapes == "threw"
AfterThrow == "done"

InitPost ==
    /\ variant \in {"basic", "fallback"}
    /\ comments \in CommentLists
    /\ pullRequestDiff = <<>>
    /\ formattedComments = <<>>
    /\ reviews = <<>>
    /\ caught = "none"
    /\ pc = "entry"
    /\ patch = UndefinedPatch
    /\ lineNumber = 0
    /\ lines = <<>>
    /\ idx = 0
    /\ diffPosition = 0
    /\ currentLine = 0
    /\ result = NULL
    /\ inputs = AllInputs
    /\ repo = <<>>
    /\ files = <<>>
    /\ fileIdx = 0
    /\ commentBody = <<>>
    /\ issueComments = <<>>
    /\ failed = FALSE
    /\ fetchLog = <<>>
    /\ requestLog = <<>>
    /\ subject = NoSubject
    /\ outputs = <<>>
    /\ lastIndex = NewRegExps
    /\ previousComments = <<>>
    /\ botComments = <<>>
    /\ deleted = <<>>
    /\ deleteError = "none"

\* if (!comments || comments.length === 0) return; the "cleanup" variant
\* then calls deletePreviousComments.
PostEnter ==
    /\ pc = "entry"
    /\ pc' = IF Len(comments) = 0 THEN "done"
             ELSE IF variant = "cleanup" THEN "listReviewComments"
             ELSE "listFiles"
    /\ UNCHANGED <<analyzeVars, cleanupVars, scanVars, postVars, runVars>>

\* await octokit.rest.pulls.listFiles(...) answers
PostListFiles ==
    /\ pc = "listFiles"
    /\ \E prFiles \in PrFileLists : pullRequestDiff' = prFiles
    /\ pc' = "map"
    /\ UNCHANGED <<analyzeVars, cleanupVars, scanVars, variant, comments, formattedComments, reviews, caught, runVars>>

\* await octokit.rest.pulls.listFiles(...) throws
PostListFilesFails ==
    /\ pc = "listFiles"
    /\ caught' = "listFiles"
    /\ pc' = AfterThrow
    /\ UNCHANGED <<analyzeVars, cleanupVars, scanVars, variant, comments, pullRequestDiff, formattedComments, reviews, runVars>>

\* const formattedComments = comments.map(...).filter(...);
\* if (formattedComments.length === 0) return;
PostMap ==
    /\ pc = "map"
    /\ formattedComments' = FormatAll(variant, pullRequestDiff, comments)
    /\ comments' = [i \in 1..Len(comments) |-> AfterMap(variant, pullRequestDiff, comments[i])]
    /\ pc' = IF Len(formattedComments') = 0 THEN "done" ELSE "createReview"
    /\ UNCHANGED <<analyzeVars, cleanupVars, scanVars, variant, pullRequestDiff, reviews, caught, runVars>>

\* await octokit.rest.pulls.createReview({..., comments: formattedComments})
PostCreateReview ==
    /\ pc = "createReview"
    /\ reviews' = Append(reviews, formattedComments)
    /\ pc' = "done"
    /\ UNCHANGED <<analyzeVars, cleanupVars, scanVars, variant, comments, pullRequestDiff, formattedComments, caught, runVars>>

\* the same call, rejected by GitHub
PostCreateReviewFails ==
    /\ pc = "createReview"
    /\ reviews' = Append(reviews, formattedComments)
    /\ caught' = "createReview"
    /\ pc' = AfterThrow
    /\ UNCHANGED <<analyzeVars, cleanupVars, scanVars, variant, comments, pullRequestDiff, formattedComments, runVars>>

NextPost ==
    \/ PostEnter
    \/ PostListFiles
    \/ PostListFilesFails
    \/ PostMap
    \/ PostCreateReview
    \/ PostCreateReviewFails

SpecPost == InitPost /\ [][NextPost]_vars

\* ---------------------------------------------------- deletePreviousComments
MaxPrevious == 2
MaxCleanupComments == 1

\* A review comment of the pull request as pulls.listReviewComments returns
\* it: its id, comment.user.type and whether comment.user.login holds '[bot]'.
PreviousComment(id, type, botLogin) == [id |-> id, type |-> type, botLogin |-> botLogin]
Authors == {<<"Bot", TRUE>>, <<"User", TRUE>>, <<"User", FALSE>>}
PreviousCommentLists ==
    {[i \in 1..Len(as) |-> PreviousComment(i, as[i][1], as[i][2])] :
        as \in UNION {[1..n -> Authors] : n \in 0..MaxPrevious}}

\* comment.user.type === "Bot" || comment.user.login.includes("[bot]")
IsBotComment(c) == c.type = "Bot" \/ c.botLogin

\* The comments analyzeFiles hands over: each has the path of a file and the
\* number of a line, 0 included.
CleanupAnchors == {<<p, l>> : p \in {Path("a", ".js"), Path("c", ".js")}, l \in 0..MaxCommentLine}
CleanupCommentLists ==
    {[i \in 1..Len(as) |-> Comment(as[i][1], as[i][2], Bodies[i])] :
        as \in UNION {[1..n -> CleanupAnchors] : n \in 0..MaxCleanupComments}}

InitCleanup ==
    /\ variant = "cleanup"
    /\ comments \in CleanupCommentLists
    /\ pullRequestDiff = <<>>
    /\ formattedComments = <<>>
    /\ reviews = <<>>
    /\ caught = "none"
    /\ pc = "entry"
    /\ patch = UndefinedPatch
    /\ lineNumber = 0
    /\ lines = <<>>
    /\ idx = 0
    /\ diffPosition = 0
    /\ currentLine = 0
    /\ result = NULL
    /\ inputs = AllInputs
    /\ repo = <<>>
    /\ files = <<>>
    /\ fileIdx = 0
    /\ commentBody = <<>>
    /\ issueComments = <<>>
    /\ failed = FALSE
    /\ fetchLog = <<>>
    /\ requestLog = <<>>
    /\ subject = NoSubject
    /\ outputs = <<>>
    /\ lastIndex = NewRegExps
    /\ previousComments = <<>>
    /\ botComments = <<>>
    /\ deleted = <<>>
    /\ deleteError = "none"

\* await octokit.rest.pulls.listReviewComments(...) answers; the comments of
\* bots are filtered out of the answer
DeleteListReviewComments ==
    /\ pc = "listReviewComments"
    /\ previousComments' \in PreviousCommentLists
    /\ botComments' = SelectSeq(previousComments', IsBotComment)
    /\ pc' = "deleteReviewComment"
    /\ UNCHANGED <<analyzeVars, scanVars, postVars, runVars, deleted, deleteError>>

\* the same call, rejected: the catch block of deletePreviousComments logs
\* the error and the function returns to postReviewComments
DeleteListReviewCommentsFails ==
    /\ pc = "listReviewComments"
    /\ deleteError' = "listReviewComments"
    /\ pc' = "listFiles"
    /\ UNCHANGED <<analyzeVars, scanVars, postVars, runVars, previousComments, botComments, deleted>>

\* for (const comment of botComments): one deleteReviewComment call answers
DeleteReviewComment ==
    /\ pc = "deleteReviewComment"
    /\ Len(deleted) < Len(botComments)
    /\ deleted' = Append(deleted, botComments[Len(deleted) + 1].id)
    /\ UNCHANGED <<analyzeVars, scanVars, postVars, runVars, previousComments, botComments,
                   deleteError, pc>>

\* a deleteReviewComment call is rejected: the error ends the loop with it.
\* DeleteReviewCommentFailsEscapes lets the error reach the catch block of
\* postReviewComments.
DeleteReviewCommentFailsEscapes ==
    /\ pc = "deleteReviewComment"
    /\ Len(deleted) < Len(botComments)
    /\ deleteError' = "deleteReviewComment"
    /\ pc' = AfterThrow
    /\ UNCHANGED <<analyzeVars, scanVars, postVars, runVars, previousComments, botComments, deleted>>

DeleteReviewCommentFails ==
    /\ pc = "deleteReviewComment"
    /\ Len(deleted) < Len(botComments)
    /\ deleteError' = "deleteReviewComment"
    /\ pc' = "listFiles"
    /\ UNCHANGED <<analyzeVars, scanVars, postVars, runVars, previousComments, botComments, deleted>>

\* the loop is over: deletePreviousComments returns
DeleteReturn ==
    /\ pc = "deleteReviewComment"
    /\ Len(deleted) = Len(botComments)
    /\ pc' = "listFiles"
    /\ UNCHANGED <<analyzeVars, scanVars, postVars, runVars, cleanupVars>>

NextCleanup ==
    \/ PostEnter
    \/ DeleteListReviewComments
    \/ DeleteListReviewCommentsFails
    \/ DeleteReviewComment
    \/ DeleteReviewCommentFails
    \/ DeleteReturn
    \/ PostListFiles
    \/ PostListFilesFails
    \/ PostMap
    \/ PostCreateReview
    \/ PostCreateReviewFails

SpecCleanup == InitCleanup /\ [][NextCleanup]_vars

\* ------------------------------------------------------------ analyzeCode
\* filename.endsWith(ext)
EndsWith(filename, ext) == filename.ext = ext

supportedExtensions == {".js", ".py", ".sh", ".rb", ".groovy"}
isSupportedFileAny(filename) == TRUE
isSupportedFile(filename) == \E ext \in supportedExtensions : EndsWith(filename, ext)

\* A node of the syntax tree, as the visitors of traverse read it: its type,
\* the line of its start, and two properties that depend on the type.
Node(type, line, a, b) == [type |-> type, line |-> line, a |-> a, b |-> b]
\* a: "===" or "==" (test is a BinaryExpression with that operator),
\*    "BooleanLiteral" or "Identifier" (the type of test); b: test.left.name
IfNode(line, test, left) == Node("IfStatement", line, test, left)
\* a: the name declared by init.declarations[0], "" when init declares nothing
ForNode(line, init) == Node("ForStatement", line, init, "")
\* a: id.name ("undefined" for a destructuring pattern); b: what
\* path.scope.bindings[id.name] is: "referenced" or "unreferenced" for a
\* binding of that name in the scope of the declarator; "elsewhereReferenced"
\* or "elsewhereUnreferenced" when that scope has no binding under id.name
\* (a var inside a nested block belongs to the scope of the function, a
\* pattern has no name) and the declared variable is or is not referenced
DeclNode(line, name, binding) == Node("VariableDeclarator", line, name, binding)
\* a: callee.type; b: callee.property.name
CallNode(line, callee, property) == Node("CallExpression", line, callee, property)

\* A finding: the message, the name the message quotes, and the line.
Suggestion(message, arg, line) == [message |-> message, arg |-> arg, line |-> line]

\* What one visitor did: the findings it pushed, and whether it threw.
Visited(found) == [threw |-> FALSE, found |-> found]
Threw == [threw |-> TRUE, found |-> <<>>]

checkIfStatementAnyComparison(node) ==
    IF node.a \in {"===", "=="}
    THEN Visited(<<Suggestion("Boolean comparison can be simplified", node.b, node.line)>>)
    ELSE IF node.a = "BooleanLiteral"
    THEN Visited(<<Suggestion("Redundant boolean literal in if condition", "", node.line)>>)
    ELSE Visited(<<>>)

checkIfStatement(node) ==
    IF node.a = "==="
    THEN Visited(<<Suggestion("Boolean comparison can be simplified", node.b, node.line)>>)
    ELSE IF node.a = "BooleanLiteral"
    THEN Visited(<<Suggestion("Redundant boolean literal in if condition", "", node.line)>>)
    ELSE Visited(<<>>)

checkForStatement(node) ==
    IF node.a = "i"
    THEN Visited(<<Suggestion("Consider replacing basic for loop", "", node.line)>>)
    ELSE Visited(<<>>)

\* path.scope.bindings[variableName].referenced: a TypeError when the scope
\* has no binding of that name
checkVariableDeclarator(node) ==
    IF node.b \notin {"referenced", "unreferenced"} THEN Threw
    ELSE IF node.b = "unreferenced"
    THEN Visited(<<Suggestion("Unused variable detected", node.a, node.line)>>)
    ELSE Visited(<<>>)

checkCallExpression(node) ==
    IF node.a = "MemberExpression" /\ node.b = "log"
    THEN Visited(<<Suggestion("Too many console logs detected", "", node.line)>>)
    ELSE Visited(<<>>)

\* the visitor object handed to traverse
Visit(node) ==
    CASE node.type = "IfStatement" -> checkIfStatement(node)
      [] node.type = "ForStatement" -> checkForStatement(node)
      [] node.type = "VariableDeclarator" -> checkVariableDeclarator(node)
      [] node.type = "CallExpression" -> checkCallExpression(node)
      [] OTHER -> Visited(<<>>)

\* traverse(ast, {...}) from node i on: the suggestions pushed, and whether a
\* visitor threw, which ends the walk.
RECURSIVE Traverse(_, _, _)
Traverse(nodes, i, suggestions) ==
    IF i > Len(nodes) THEN [threw |-> FALSE, found |-> suggestions]
    ELSE LET v == Visit(nodes[i])
         IN IF v.threw THEN [threw |-> TRUE, found |-> suggestions]
            ELSE Traverse(nodes, i + 1, suggestions \o v.found)

\* A file content: the empty string, or a text with its syntax tree in
\* document order (parses is FALSE when parse() throws) and its lines, each
\* line the sequence of the statements on it.
Source(empty, parses, nodes, textLines) ==
    [empty |-> empty, parses |-> parses, nodes |-> nodes, lines |-> textLines]
EmptySource == Source(TRUE, FALSE, <<>>, <<>>)
JsSource(nodes) == Source(FALSE, TRUE, nodes, <<>>)
BrokenJsSource == Source(FALSE, FALSE, <<>>, <<>>)
TextSource(textLines) == Source(FALSE, FALSE, <<>>, textLines)

\* regex.test(line) for the regular expressions of analyzeNonJsCode
Has(line, statement) == \E k \in 1..Len(line) : line[k] = statement

\* the callback of lines.forEach
NonJsLine(line, index, filename) ==
    IF EndsWith(filename, ".py")
    THEN (IF Has(line, "print(x)")
          THEN <<Suggestion("Too many print statements detected in Python file.", "", index)>>
          ELSE <<>>)
         \o (IF Has(line, "if x == True:")
             THEN <<Suggestion("Boolean comparison can be simplified: if condition.", "", index)>>
             ELSE <<>>)
    ELSE IF EndsWith(filename, ".sh")
    THEN (IF Has(line, "echo x")
          THEN <<Suggestion("Too many echo statements detected in Shell script.", "", index)>>
          ELSE <<>>)
    ELSE IF EndsWith(filename, ".rb")
    THEN (IF Has(line, "puts x")
          THEN <<Suggestion("Too many puts statements detected in Ruby script.", "", index)>>
          ELSE <<>>)
    ELSE IF EndsWith(filename, ".groovy")
    THEN (IF Has(line, "println x")
          THEN <<Suggestion("Too many println statements detected in Groovy script.", "", index)>>
          ELSE <<>>)
    ELSE <<>>

RECURSIVE analyzeNonJsCodeFrom(_, _, _)
analyzeNonJsCodeFrom(textLines, i, filename) ==
    IF i > Len(textLines) THEN <<>>
    ELSE NonJsLine(textLines[i], i, filename) \o analyzeNonJsCodeFrom(textLines, i + 1, filename)

analyzeNonJsCode(content, filename) == analyzeNonJsCodeFrom(content.lines, 1, filename)

\* The try block of analyzeCode: parse throws on a text that is no program.
analyzeCodeTry(content, filename) ==
    IF EndsWith(filename, ".js")
    THEN IF content.parses THEN Traverse(content.nodes, 1, <<>>) ELSE Threw
    ELSE Visited(analyzeNonJsCode(content, filename))

\* catch (error) { core.warning(...) }: the error ends there
CatchRethrows(outcome) == outcome
CatchDropsFindings(outcome) ==
    [threw |-> FALSE, found |-> IF outcome.threw THEN <<>> ELSE outcome.found]
Catch(outcome) == [threw |-> FALSE, found |-> outcome.found]

\* analyzeCode as its caller sees it: the suggestions it returns, or a throw
analyzeCodeCall(content, filename) == Catch(analyzeCodeTry(content, filename))

analyzeCode(content, filename) == analyzeCodeCall(content, filename).found

\* ------------------------------------------------------- generateCommentBody
\* The keys of groupedComments in the order of their first insertion.
RECURSIVE InsertionKeys(_, _)
InsertionKeys(cs, keys) ==
    IF Len(cs) = 0 THEN keys
    ELSE InsertionKeys(Tail(cs),
                       IF \E k \in 1..Len(keys) : keys[k] = cs[1].path
                       THEN keys ELSE Append(keys, cs[1].path))

\* A property key that is an array index: a canonical decimal number.
ArrayIndexStems == <<"0", "1", "2", "3">>
IsArrayIndex(key) ==
    key.ext = "" /\ \E n \in 1..Len(ArrayIndexStems) : ArrayIndexStems[n] = key.stem
ArrayIndexValue(key) == CHOOSE n \in 1..Len(ArrayIndexStems) : ArrayIndexStems[n] = key.stem

\* keys sorted by ArrayIndexValue
RECURSIVE SortedIndexKeys(_)
SortedIndexKeys(keySet) ==
    IF keySet = {} THEN <<>>
    ELSE LET least == CHOOSE k \in keySet :
                         \A o \in keySet : ArrayIndexValue(k) <= ArrayIndexValue(o)
         IN <<least>> \o SortedIndexKeys(keySet \ {least})

RECURSIVE Reversed(_)
Reversed(seq) == IF Len(seq) = 0 THEN <<>> ELSE Append(Reversed(Tail(seq)), seq[1])

\* Object.entries(groupedComments): the array-index keys in ascending order,
\* then the other keys in the order of their insertion.
OwnKeysReversed(keys) == Reversed(keys)
OwnKeys(keys) ==
    LET IsIndex(k) == IsArrayIndex(k)
        IsName(k) == ~IsArrayIndex(k)
        indexKeys == SelectSeq(keys, IsIndex)
    IN SortedIndexKeys({indexKeys[n] : n \in 1..Len(indexKeys)}) \o SelectSeq(keys, IsName)

\* groupedComments[file]
IssuesOf(cs, file) ==
    LET OfFile(c) == c.path = file
        own == SelectSeq(cs, OfFile)
    IN own

\* The report: one entry for each comment in the "ast" variant, one entry
\* for each file with its issues in the "aiSwitch" variant.
generateCommentBody(v, cs) ==
    IF v = "ast"
    THEN [n \in 1..Len(cs) |-> [file |-> cs[n].path, issues |-> <<cs[n]>>]]
    ELSE LET keys == OwnKeys(InsertionKeys(cs, <<>>))
         IN [n \in 1..Len(keys) |-> [file |-> keys[n], issues |-> IssuesOf(cs, keys[n])]]

\* -------------------------------------------------------------- SpecRun
RunPaths ==
    {Path("a", ".js"), Path("1", ".js"), Path("b", ".py"), Path("c", ".sh"), Path("1", "")}

\* 'console.log(a); console.log(b);' on one line
TwoLogsSource ==
    JsSource(<<CallNode(1, "MemberExpression", "log"), CallNode(1, "MemberExpression", "log")>>)
\* 'if (x === true) { y(); }\nlet u = 1;'
IfAndUnusedSource ==
    JsSource(<<IfNode(1, "===", "x"), CallNode(1, "Identifier", ""),
               DeclNode(2, "u", "unreferenced")>>)
\* 'console.log(a);\nconst {p} = o;\nif (true) {}': the walk throws on line 2
PatternSource ==
    JsSource(<<CallNode(1, "MemberExpression", "log"), DeclNode(2, "undefined", "elsewhereUnreferenced"),
               IfNode(3, "BooleanLiteral", "")>>)
\* 'print(x); print(x)\nif x == True:\nx = 1'
PrintsSource ==
    TextSource(<<<<"print(x)", "print(x)">>, <<"if x == True:">>, <<"x = 1">>>>)
\* 'echo x\necho x'
EchoSource == TextSource(<<<<"echo x">>, <<"echo x">>>>)
PlainSource == TextSource(<<<<"x = 1">>>>)

SourcesOf(filename) ==
    CASE filename = Path("a", ".js") -> {TwoLogsSource, PatternSource, EmptySource}
      [] filename = Path("1", ".js") -> {IfAndUnusedSource, BrokenJsSource}
      [] filename = Path("b", ".py") -> {PrintsSource, PlainSource}
      [] filename = Path("c", ".sh") -> {EchoSource}
      [] OTHER -> {PlainSource}

Repos == {r \in [RunPaths -> UNION {SourcesOf(f) : f \in RunPaths}] :
             \A f \in RunPaths : r[f] \in SourcesOf(f)}

\* The answers of pulls.listFiles: a pull request lists a file once.
FileLists ==
    {fs \in UNION {[1..n -> RunPaths] : n \in 0..MaxFiles} :
        \A i, j \in 1..Len(fs) : i # j => fs[i] # fs[j]}

\* comments.push({path, body, position}) for one suggestion: body is
\* suggestion.message in the "ast" variant (a message, which has no line of
\* its own), the suggestion itself in the "aiSwitch" variant
FileComment(v, filename, suggestion) ==
    [path |-> filename,
     body |-> IF v = "ast"
              THEN Suggestion(suggestion.message, suggestion.arg, 0)
              ELSE suggestion,
     position |-> suggestion.line]

FileComments(v, filename, suggestions) ==
    [n \in 1..Len(suggestions) |-> FileComment(v, filename, suggestions[n])]

\* The contents the variants that ask the remote service can meet: they
\* read the text only. BlankSource is '  \n\n', PaddedSource '\nx = 1'.
BlankSource == TextSource(<<<<>>, <<>>>>)
PaddedSource == TextSource(<<<<>>, <<"x = 1">>>>)
TextSourcesOf(filename) ==
    CASE filename = Path("a", ".js") -> {PlainSource, EmptySource}
      [] filename = Path("1", ".js") -> {PaddedSource, BlankSource}
      [] OTHER -> {PlainSource}

TextRepos == {r \in [RunPaths -> UNION {TextSourcesOf(f) : f \in RunPaths}] :
                 \A f \in RunPaths : r[f] \in TextSourcesOf(f)}

\* file.patch of a file of the pull request
PatchOf(filename) ==
    CASE filename = Path("a", ".js") -> StringPatch(Join(<<Hunk(1), AddedLine, AddedLine>>))
      [] filename = Path("b", ".py") ->
            StringPatch(Join(<<Hunk(2), RemovedLine, AddedLine, ContextLine>>))
      [] OTHER -> UndefinedPatch

\* files.data as postReviewComments receives it from its own listFiles call
WithPatches(fs) == [k \in 1..Len(fs) |-> PrFile(fs[k], PatchOf(fs[k]))]

\* content.split("\n").findIndex(line => line.trim() !== "") + 1
firstLineNumber(content) ==
    LET hits == {i \in 1..Len(content.lines) : content.lines[i] # <<>>}
    IN IF hits = {} THEN 0 ELSE CHOOSE i \in hits : \A j \in hits : i <= j

\* The comment pushed for a suggestion of the remote service: with the first
\* line of text in "basic", without a line in "direct".
SuggestionComment(v, filename, content) ==
    Comment(filename, IF v = "basic" THEN firstLineNumber(content) ELSE UNDEFINED, "review")

\* comment.suggestion, which no comment of analyzeFiles has
NoBody == "undefined"

\* The callback of comments.map in run of "direct": it reads comment.filename,
\* comment.line and comment.suggestion.
DirectReviewComment(c) == ReviewComment(NoPath, c.line, NoBody)

\* whether analyzeFiles asks the remote service
UsesAi == variant \in {"basic", "direct"} \/ inputs.useAiTool

InitRun ==
    /\ variant \in {"ast", "aiSwitch", "basic", "direct"}
    /\ inputs \in [token : BOOLEAN, pr : BOOLEAN, useAiTool : BOOLEAN,
                   appId : BOOLEAN, privateKey : BOOLEAN, aiApiKey : BOOLEAN]
    /\ variant # "aiSwitch" => ~inputs.useAiTool
    /\ variant \in {"basic", "direct"} => inputs.token
    /\ variant \in {"ast", "aiSwitch"} => inputs.appId /\ inputs.privateKey
    /\ ~UsesAi => inputs.aiApiKey
    /\ repo \in IF variant \in {"basic", "direct"} THEN TextRepos ELSE Repos
    /\ files = <<>>
    /\ fileIdx = 0
    /\ comments = <<>>
    /\ commentBody = <<>>
    /\ issueComments = <<>>
    /\ failed = FALSE
    /\ fetchLog = <<>>
    /\ requestLog = <<>>
    /\ subject = NoSubject
    /\ outputs = <<>>
    /\ lastIndex = NewRegExps
    /\ previousComments = <<>>
    /\ botComments = <<>>
    /\ deleted = <<>>
    /\ deleteError = "none"
    /\ caught = "none"
    /\ pc = "run"
    /\ pullRequestDiff = <<>>
    /\ formattedComments = <<>>
    /\ reviews = <<>>
    /\ patch = UndefinedPatch
    /\ lineNumber = 0
    /\ lines = <<>>
    /\ idx = 0
    /\ diffPosition = 0
    /\ currentLine = 0
    /\ result = NULL

\* run up to the listFiles call. "ast" and "aiSwitch" check the token and the
\* pull request. "basic" and "direct" sign in as a GitHub App:
\* getOctokitInstance calls setFailed and returns undefined when a credential
\* is missing or the App is installed nowhere; "direct" then returns, and
\* returns without failing when the event has no pull request; "basic" goes
\* on, and reading pull_request.number or octokit.rest throws into the catch
\* block of run.
RunStart ==
    /\ pc = "run"
    /\ IF variant \in {"ast", "aiSwitch"}
       THEN IF ~inputs.token \/ ~inputs.pr
            THEN failed' = TRUE /\ pc' = "done"
            ELSE failed' = failed /\ pc' = "listFiles"
       ELSE \E installed \in BOOLEAN :
               IF ~(inputs.appId /\ inputs.privateKey /\ installed)
               THEN failed' = TRUE /\ pc' = "done"
               ELSE IF ~inputs.pr
               THEN failed' = (variant = "basic") /\ pc' = "done"
               ELSE failed' = failed /\ pc' = "listFiles"
    /\ UNCHANGED <<analyzeVars, cleanupVars, scanVars, postVars, inputs, repo, files, fileIdx, commentBody,
                   issueComments, fetchLog, requestLog>>

\* await octokit.rest.pulls.listFiles(...) answers; analyzeFiles starts
RunListFiles ==
    /\ pc = "listFiles"
    /\ files' \in FileLists
    /\ fileIdx' = 1
    /\ comments' = <<>>
    /\ pc' = "analyzeFiles"
    /\ UNCHANGED <<analyzeVars, cleanupVars, scanVars, variant, pullRequestDiff, formattedComments, reviews, caught,
                   inputs, repo, commentBody, issueComments, failed, fetchLog, requestLog>>

\* await octokit.rest.pulls.listFiles(...) throws: the catch block of run
RunListFilesFails ==
    /\ pc = "listFiles"
    /\ failed' = TRUE
    /\ caught' = "listFiles"
    /\ pc' = "done"
    /\ UNCHANGED <<analyzeVars, cleanupVars, scanVars, variant, comments, pullRequestDiff, formattedComments, reviews,
                   inputs, repo, files, fileIdx, commentBody, issueComments,
                   fetchLog, requestLog>>

\* analyzeFiles: if (!isSupportedFile(file.filename)) continue;
AnalyzeUnsupported ==
    /\ pc = "analyzeFiles"
    /\ fileIdx <= Len(files)
    /\ ~isSupportedFile(files[fileIdx])
    /\ fileIdx' = fileIdx + 1
    /\ UNCHANGED <<analyzeVars, cleanupVars, scanVars, postVars, inputs, repo, files, commentBody, issueComments,
                   failed, fetchLog, requestLog, pc>>

\* AnalyzeFetchFails with a second getContent call for the file after the
\* first one was rejected.
AnalyzeFetchFailsRetries ==
    /\ pc = "analyzeFiles"
    /\ fileIdx <= Len(files)
    /\ isSupportedFile(files[fileIdx])
    /\ fetchLog' = fetchLog \o <<files[fileIdx], files[fileIdx]>>
    /\ caught' = "getContent"
    /\ IF variant = "ast"
       THEN /\ fileIdx' = fileIdx + 1
            /\ UNCHANGED <<failed, pc>>
       ELSE /\ failed' = TRUE
            /\ pc' = "done"
            /\ UNCHANGED fileIdx
    /\ UNCHANGED <<analyzeVars, cleanupVars, scanVars, variant, comments, pullRequestDiff, formattedComments, reviews,
                   inputs, repo, files, commentBody, issueComments, requestLog>>

\* analyzeFiles: repos.getContent throws. fetchFileContent of the "ast"
\* variant catches it and returns '', and the file is skipped; in the other
\* variants the error reaches the catch block of run.
AnalyzeFetchFails ==
    /\ pc = "analyzeFiles"
    /\ fileIdx <= Len(files)
    /\ isSupportedFile(files[fileIdx])
    /\ fetchLog' = Append(fetchLog, files[fileIdx])
    /\ caught' = "getContent"
    /\ IF variant = "ast"
       THEN /\ fileIdx' = fileIdx + 1
            /\ UNCHANGED <<failed, pc>>
       ELSE /\ failed' = TRUE
            /\ pc' = "done"
            /\ UNCHANGED fileIdx
    /\ UNCHANGED <<analyzeVars, cleanupVars, scanVars, variant, comments, pullRequestDiff, formattedComments, reviews,
                   inputs, repo, files, commentBody, issueComments, requestLog>>

\* analyzeFiles: the content is fetched; if (!content) continue; the
\* suggestions of analyzeCode are pushed as comments. An error thrown by
\* analyzeCode would reach the catch block of run.
AnalyzeFile ==
    /\ pc = "analyzeFiles"
    /\ fileIdx <= Len(files)
    /\ isSupportedFile(files[fileIdx])
    /\ fetchLog' = Append(fetchLog, files[fileIdx])
    /\ LET filename == files[fileIdx]
           content == repo[filename]
           call == analyzeCodeCall(content, filename)
       IN /\ content.empty \/ ~UsesAi
          /\ IF content.empty
             THEN UNCHANGED <<comments, failed, pc>> /\ fileIdx' = fileIdx + 1
             ELSE IF call.threw
             THEN failed' = TRUE /\ pc' = "done" /\ UNCHANGED <<comments, fileIdx>>
             ELSE /\ comments' = comments \o FileComments(variant, filename, call.found)
                  /\ fileIdx' = fileIdx + 1
                  /\ UNCHANGED <<failed, pc>>
    /\ UNCHANGED <<analyzeVars, cleanupVars, scanVars, variant, pullRequestDiff, formattedComments, reviews, caught,
                   inputs, repo, files, commentBody, issueComments, requestLog>>

\* The answers of the remote service to one request: a request without a key
\* is rejected.
Answers == IF inputs.aiApiKey THEN {"text", "empty", "throws"} ELSE {"throws"}

\* analyzeFiles with use_ai_tool: getSuggestionsFromAiTool returns a string.
\* An empty string pushes nothing; on a text suggestions.forEach is not a
\* function, and a failed request throws: both reach the catch block of run.
AnalyzeWithAiTool ==
    /\ pc = "analyzeFiles"
    /\ fileIdx <= Len(files)
    /\ isSupportedFile(files[fileIdx])
    /\ ~repo[files[fileIdx]].empty
    /\ variant = "aiSwitch" /\ inputs.useAiTool
    /\ fetchLog' = Append(fetchLog, files[fileIdx])
    /\ requestLog' = Append(requestLog, files[fileIdx])
    /\ \E answer \in Answers :
          IF answer = "empty"
          THEN /\ fileIdx' = fileIdx + 1
               /\ UNCHANGED <<failed, pc, caught>>
          ELSE /\ failed' = TRUE
               /\ caught' = IF answer = "text" THEN "forEach" ELSE "aiRequest"
               /\ pc' = "done"
               /\ UNCHANGED fileIdx
    /\ UNCHANGED <<analyzeVars, cleanupVars, scanVars, variant, comments, pullRequestDiff, formattedComments, reviews,
                   inputs, repo, files, commentBody, issueComments>>

\* analyzeFiles of "basic" and "direct": getSuggestionsFromGeminiAI catches a
\* failed request and returns null, as it does for an empty answer; the file
\* is then skipped. A text becomes one comment.
AnalyzeWithGemini ==
    /\ pc = "analyzeFiles"
    /\ fileIdx <= Len(files)
    /\ isSupportedFile(files[fileIdx])
    /\ ~repo[files[fileIdx]].empty
    /\ variant \in {"basic", "direct"}
    /\ fetchLog' = Append(fetchLog, files[fileIdx])
    /\ requestLog' = Append(requestLog, files[fileIdx])
    /\ \E answer \in Answers :
          /\ comments' = IF answer = "text"
                         THEN Append(comments, SuggestionComment(variant, files[fileIdx],
                                                                 repo[files[fileIdx]]))
                         ELSE comments
          /\ caught' = IF answer = "throws" THEN "aiRequest" ELSE caught
    /\ fileIdx' = fileIdx + 1
    /\ UNCHANGED <<analyzeVars, cleanupVars, scanVars, variant, pullRequestDiff, formattedComments, reviews,
                   inputs, repo, files, commentBody, issueComments, failed, pc>>

\* run after analyzeFiles: if (comments.length > 0) the report is built and
\* handed to issues.createComment, whose failure is logged by its .catch
RunReport ==
    /\ pc = "analyzeFiles"
    /\ fileIdx > Len(files)
    /\ variant \in {"ast", "aiSwitch"}
    /\ IF Len(comments) > 0
       THEN /\ commentBody' = generateCommentBody(variant, comments)
            /\ \E ok \in BOOLEAN :
                  IF ok
                  THEN issueComments' = Append(issueComments, commentBody') /\ caught' = caught
                  ELSE issueComments' = issueComments /\ caught' = "createComment"
       ELSE UNCHANGED <<commentBody, issueComments, caught>>
    /\ pc' = "done"
    /\ UNCHANGED <<analyzeVars, cleanupVars, scanVars, variant, comments, pullRequestDiff, formattedComments, reviews,
                   inputs, repo, files, fileIdx, failed, fetchLog, requestLog>>

\* run of "basic" after analyzeFiles: the whole of postReviewComments. It
\* returns on an empty list; it asks for the files of the pull request again,
\* maps and filters the comments, returns when none is left and hands the
\* rest to createReview; its catch block logs an error of either call.
RunPostReview ==
    /\ pc = "analyzeFiles"
    /\ fileIdx > Len(files)
    /\ variant = "basic"
    /\ IF Len(comments) = 0
       THEN UNCHANGED <<pullRequestDiff, formattedComments, reviews, caught>>
       ELSE \E outcome \in {"answered", "listFiles", "createReview"} :
               IF outcome = "listFiles"
               THEN caught' = "listFiles"
                    /\ UNCHANGED <<pullRequestDiff, formattedComments, reviews>>
               ELSE /\ pullRequestDiff' = WithPatches(files)
                    /\ formattedComments' = FormatAll(variant, pullRequestDiff', comments)
                    /\ reviews' = IF Len(formattedComments') = 0 THEN reviews
                                  ELSE Append(reviews, formattedComments')
                    /\ caught' = IF outcome = "createReview" /\ Len(formattedComments') > 0
                                 THEN "createReview" ELSE caught
    /\ pc' = "done"
    /\ UNCHANGED <<analyzeVars, cleanupVars, scanVars, variant, comments, runVars>>

\* run of "direct" after analyzeFiles: if (comments.length > 0) the comments
\* are mapped and handed to createReview, whose error reaches the catch block
\* of run.
RunCreateReview ==
    /\ pc = "analyzeFiles"
    /\ fileIdx > Len(files)
    /\ variant = "direct"
    /\ IF Len(comments) = 0
       THEN UNCHANGED <<reviews, caught, failed>>
       ELSE /\ reviews' = Append(reviews,
                                 [n \in 1..Len(comments) |-> DirectReviewComment(comments[n])])
            /\ \E ok \in BOOLEAN :
                  IF ok THEN UNCHANGED <<caught, failed>>
                  ELSE caught' = "createReview" /\ failed' = TRUE
    /\ pc' = "done"
    /\ UNCHANGED <<analyzeVars, cleanupVars, scanVars, variant, comments, pullRequestDiff, formattedComments,
                   inputs, repo, files, fileIdx, commentBody, issueComments,
                   fetchLog, requestLog>>

NextRun ==
    \/ RunStart
    \/ RunListFiles
    \/ RunListFilesFails
    \/ AnalyzeUnsupported
    \/ AnalyzeFetchFails
    \/ AnalyzeFile
    \/ AnalyzeWithAiTool
    \/ AnalyzeWithGemini
    \/ RunReport
    \/ RunPostReview
    \/ RunCreateReview

SpecRun == InitRun /\ [][NextRun]_vars

\* run is one chain of awaited calls: every call it waits for is answered or
\* rejected, and the step after it is then taken.
SpecRunFair == SpecRun /\ WF_vars(NextRun)

\* ------------------------------------- analyzeCode, regular expressions
\* A content as the three regular expressions see it, a sequence of pieces:
\*   "ifElse"       if (c) { a(); } else { b(); }
\*   "ifElseBlock"  if (c) { a(); b(); } else { c(); d(); }
\*   "ifElseObject" if (c) { x = {}; } else { y = {}; }
\*   "duplicate"    let x = 1; let x = 2;
\*   "longLoop"     a for or while loop with a body of ten lines or more
\*   "code"         any other text
\* each followed by a line break.
Pieces == {"ifElse", "ifElseBlock", "ifElseObject", "duplicate", "longLoop", "code"}

\* Whether the pattern matches inside the piece. The bodies of ifElsePattern
\* are [^{}]*: any text without a brace.
Matches(pattern, piece) ==
    CASE pattern = "ifElsePattern" -> piece \in {"ifElse", "ifElseBlock"}
      [] pattern = "duplicateVarPattern" -> piece = "duplicate"
      [] pattern = "longLoopPattern" -> piece = "longLoop"

\* pattern.test(content) on a /g object whose lastIndex is li: the search
\* starts after li; a match leaves lastIndex at its end, a failure at 0.
RegexTest(pattern, content, li) ==
    LET hits == {i \in (li + 1)..Len(content) : Matches(pattern, content[i])}
    IN IF hits = {} THEN [found |-> FALSE, lastIndex |-> 0]
       ELSE [found |-> TRUE, lastIndex |-> CHOOSE i \in hits : \A j \in hits : i <= j]

\* The objects a call tests: the literals are inside the function, so each
\* call creates its own.
RegExpsShared(left) == left
RegExps(left) == NewRegExps

\* analyzeCode of the regular-expression variant on objects with the given
\* lastIndex: the suggestions returned and the lastIndex of each object after
\* the call.
regexAnalyzeCode(content, regs) ==
    LET ifElse == RegexTest("ifElsePattern", content, regs["ifElsePattern"])
        duplicate == RegexTest("duplicateVarPattern", content, regs["duplicateVarPattern"])
        longLoop == RegexTest("longLoopPattern", content, regs["longLoopPattern"])
    IN [suggestions |->
            (IF ifElse.found THEN <<"unnecessary if-else block">> ELSE <<>>)
            \o (IF duplicate.found THEN <<"duplicate variable assignments">> ELSE <<>>)
            \o (IF longLoop.found THEN <<"long loop">> ELSE <<>>),
        lastIndex |-> [p \in Patterns |->
                          CASE p = "ifElsePattern" -> ifElse.lastIndex
                            [] p = "duplicateVarPattern" -> duplicate.lastIndex
                            [] p = "longLoopPattern" -> longLoop.lastIndex]]

\* ---------------------------------------------------------- SpecAnalyze
MaxPieces == 3
MaxNodes == 3
MaxTextLines == 3
MaxCalls == 2

Subject(analyzer, filename, content) ==
    [analyzer |-> analyzer, filename |-> filename, content |-> content]

RegexContents == UNION {[1..n -> Pieces] : n \in 0..MaxPieces}

\* The nodes a .js content is made of: type and the two properties the
\* visitors read.
Shape(type, a, b) == [type |-> type, a |-> a, b |-> b]
Shapes ==
    {Shape("IfStatement", t, "x") : t \in {"===", "==", "BooleanLiteral", "Identifier"}}
    \cup {Shape("ForStatement", "i", ""), Shape("ForStatement", "", "")}
    \cup {Shape("VariableDeclarator", "u", "referenced"),
          Shape("VariableDeclarator", "u", "unreferenced"),
          Shape("VariableDeclarator", "v", "elsewhereReferenced"),
          Shape("VariableDeclarator", "undefined", "elsewhereReferenced"),
          Shape("VariableDeclarator", "undefined", "elsewhereUnreferenced")}
    \cup {Shape("CallExpression", "MemberExpression", "log"),
          Shape("CallExpression", "Identifier", "")}

\* 'if (x === true) { y(); }'
IfScenarioSource == JsSource(<<IfNode(1, "===", "x"), CallNode(1, "Identifier", "")>>)

\* A program with one node on each line.
JsContent(shapes) ==
    JsSource([i \in 1..Len(shapes) |-> Node(shapes[i].type, i, shapes[i].a, shapes[i].b)])
JsContents ==
    {JsContent(shapes) : shapes \in UNION {[1..n -> Shapes] : n \in 1..MaxNodes}}
    \cup {TwoLogsSource, IfAndUnusedSource, PatternSource, BrokenJsSource, IfScenarioSource}

TextLineKinds ==
    {<<>>, <<"print(x)">>, <<"print(x)", "print(x)">>, <<"x = 1">>, <<"if x == True:">>}
\* six lines 'print(x)'
SixPrintsSource == TextSource([i \in 1..6 |-> <<"print(x)">>])
PyContents ==
    {TextSource(ls) : ls \in UNION {[1..n -> TextLineKinds] : n \in 1..MaxTextLines}}
    \cup {SixPrintsSource}

Subjects ==
    {Subject("regex", Path("a", ".js"), c) : c \in RegexContents}
    \cup {Subject("tree", Path("a", ".js"), c) : c \in JsContents}
    \cup {Subject("tree", Path("b", ".py"), c) : c \in PyContents}
    \cup {Subject("tree", Path("c", ".sh"), EchoSource),
          Subject("tree", Path("d", ".rb"), TextSource(<<<<"puts x">>, <<"x = 1">>>>)),
          Subject("tree", Path("e", ".groovy"), TextSource(<<<<"println x">>>>)),
          Subject("tree", Path("1", ""), PlainSource)}

InitAnalyze ==
    /\ subject \in Subjects
    /\ outputs = <<>>
    /\ lastIndex = NewRegExps
    /\ previousComments = <<>>
    /\ botComments = <<>>
    /\ deleted = <<>>
    /\ deleteError = "none"
    /\ pc = "analyze"
    /\ variant = "basic"
    /\ comments = <<>>
    /\ pullRequestDiff = <<>>
    /\ formattedComments = <<>>
    /\ reviews = <<>>
    /\ caught = "none"
    /\ patch = UndefinedPatch
    /\ lineNumber = 0
    /\ lines = <<>>
    /\ idx = 0
    /\ diffPosition = 0
    /\ currentLine = 0
    /\ result = NULL
    /\ inputs = AllInputs
    /\ repo = <<>>
    /\ files = <<>>
    /\ fileIdx = 0
    /\ commentBody = <<>>
    /\ issueComments = <<>>
    /\ failed = FALSE
    /\ fetchLog = <<>>
    /\ requestLog = <<>>

\* one call of analyzeCode, regular-expression variant
CallRegexAnalyzeCode ==
    /\ pc = "analyze"
    /\ subject.analyzer = "regex"
    /\ Len(outputs) < MaxCalls
    /\ LET call == regexAnalyzeCode(subject.content, RegExps(lastIndex))
       IN /\ outputs' = Append(outputs, call.suggestions)
          /\ lastIndex' = call.lastIndex
    /\ UNCHANGED <<cleanupVars, scanVars, postVars, runVars, subject, pc>>

\* one call of analyzeCode, syntax-tree and line variant
CallAnalyzeCode ==
    /\ pc = "analyze"
    /\ subject.analyzer = "tree"
    /\ Len(outputs) < MaxCalls
    /\ outputs' = Append(outputs, analyzeCode(subject.content, subject.filename))
    /\ UNCHANGED <<cleanupVars, scanVars, postVars, runVars, subject, lastIndex, pc>>

NextAnalyze == CallRegexAnalyzeCode \/ CallAnalyzeCode

SpecAnalyze == InitAnalyze /\ [][NextAnalyze]_vars

\* ------------------------------------------------- the unified diff format
\* What the format itself says about a patch, whatever getDiffPosition reads.
IsHeader(line) == line.first = "@@"
IsNewFileLine(line) == line.first \in {" ", "+"}
IsOldFileLine(line) == line.first \in {" ", "-"}

\* The lines of a patch value; an absent patch has none.
PatchLines(p) == IF p.type = "string" THEN Split(p.text) ELSE <<>>

\* The new-file line number of each line of ls from element i on (0: the line
\* has none), nxt being the number of the next new-file line (0 before the
\* first hunk header).
RECURSIVE NumbersFrom(_, _, _)
NumbersFrom(ls, i, nxt) ==
    IF i > Len(ls) THEN <<>>
    ELSE IF IsHeader(ls[i]) THEN <<0>> \o NumbersFrom(ls, i + 1, ls[i].newStart)
    ELSE IF IsNewFileLine(ls[i]) /\ nxt > 0
    THEN <<nxt>> \o NumbersFrom(ls, i + 1, nxt + 1)
    ELSE <<0>> \o NumbersFrom(ls, i + 1, nxt)

NewFileNumbers(ls) == NumbersFrom(ls, 1, 0)

\* The new-file line numbers of the added and context lines of a patch.
AddedOrContextNumbers(p) ==
    LET ls == PatchLines(p)
        nums == NewFileNumbers(ls)
    IN {nums[i] : i \in 1..Len(ls)} \ {0}

\* The index of the header of the hunk that line i belongs to (0: none).
HunkOf(ls, i) ==
    LET hs == {j \in 1..i : IsHeader(ls[j])}
    IN IF hs = {} THEN 0 ELSE CHOOSE j \in hs : \A k \in hs : k <= j

HunkBody(ls, h) == {i \in 1..Len(ls) : ~IsHeader(ls[i]) /\ HunkOf(ls, i) = h}

\* A patch as diff writes it: it starts with a hunk header, every hunk
\* changes a line, a header without counts stands for one old and one new line, the
\* hunks do not overlap and follow each other in the new file, and a
\* 'no newline' marker follows a line of a file.
WellFormed(ls) ==
    LET nums == NewFileNumbers(ls)
    IN /\ Len(ls) >= 1
       /\ IsHeader(ls[1])
       /\ \A i \in 1..Len(ls) :
             \/ IsHeader(ls[i])
             \/ ls[i] \in {ContextLine, AddedLine, RemovedLine}
             \/ /\ ls[i] = NoNewlineMarker
                /\ ls[i - 1] \in {ContextLine, AddedLine, RemovedLine}
       /\ \A h \in 1..Len(ls) : IsHeader(ls[h]) =>
             /\ \E i \in HunkBody(ls, h) : ls[i] \in {AddedLine, RemovedLine}
             /\ ~ls[h].newCount =>
                   Cardinality({i \in HunkBody(ls, h) : IsNewFileLine(ls[i])}) = 1
             /\ ~ls[h].oldCount =>
                   Cardinality({i \in HunkBody(ls, h) : IsOldFileLine(ls[i])}) = 1
             /\ \A i \in 1..(h - 1) : nums[i] < ls[h].newStart
             /\ \A g \in 1..(h - 1) : IsHeader(ls[g]) => ls[g].newStart < ls[h].newStart

\* --------------------------------------------------------------- C1
ScenarioPatch == StringPatch(Join(ScenarioLines))

\* C1: on the scenario patch '@@ -1,3 +1,4 @@', ' context', '+added1',
\* '+added2', ' context', getDiffPosition(patch, 2) returns 2: the counter is
\* 0 after the header, 1 after the first context line, and 2 is returned on
\* the first added line.
C1_ScenarioPosition ==
    (patch = ScenarioPatch /\ lineNumber = 2) =>
        /\ (pc = "loop" /\ idx = 2) => diffPosition = 0
        /\ (pc = "loop" /\ idx = 3) => diffPosition = 1
        /\ pc = "done" => (result = 2 /\ idx = 3)

C1_Witness ==
    patch = ScenarioPatch /\ lineNumber = 2 /\ pc = "done" /\ lines = ScenarioLines

\* --------------------------------------------------------------- C2
NonHeaderCount(ls) == Cardinality({i \in 1..Len(ls) : ~IsHeader(ls[i])})

\* Two numbered lines of one hunk, the first above the second.
SameHunkPairs(ls) ==
    LET nums == NewFileNumbers(ls)
    IN {pr \in (1..Len(ls)) \X (1..Len(ls)) :
          /\ nums[pr[1]] > 0
          /\ nums[pr[2]] > 0
          /\ nums[pr[1]] < nums[pr[2]]
          /\ HunkOf(ls, pr[1]) = HunkOf(ls, pr[2])}

\* C2: for a well-formed patch and the new-file line L of an added or context
\* line, getDiffPosition returns a position p, 1 <= p <= the number of
\* non-header lines, and positions grow with L inside one hunk.
C2_PositionInRange ==
    (pc = "done" /\ WellFormed(PatchLines(patch))
        /\ lineNumber \in AddedOrContextNumbers(patch)) =>
        LET ls == PatchLines(patch)
            nums == NewFileNumbers(ls)
        IN /\ result # NULL
           /\ 1 <= result
           /\ result <= NonHeaderCount(ls)
           /\ \A pr \in SameHunkPairs(ls) :
                 LET p1 == getDiffPosition(patch, nums[pr[1]])
                     p2 == getDiffPosition(patch, nums[pr[2]])
                 IN p1 # NULL /\ p2 # NULL /\ p1 < p2

\* --------------------------------------------------------------- C3
\* C3: a sourceLine that is not the new-file line number of an added or
\* context line of the patch makes getDiffPosition return null.
C3_UnresolvableElsewhere ==
    (pc = "done" /\ lineNumber \notin AddedOrContextNumbers(patch)) => result = NULL

\* --------------------------------------------------------------- C4
\* The lines before element i that lie after the first hunk header and are no
\* header themselves: added, context and removed lines alike.
BodyLinesBefore(ls, i) ==
    Cardinality({j \in 1..(i - 1) : j <= Len(ls) /\ HunkOf(ls, j) # 0 /\ ~IsHeader(ls[j])})

\* C4: every line after the first hunk header, a removed line included,
\* increments the diff-position counter, so that the position returned for a
\* line that follows k removed lines counts those k lines.
C4_RemovedLinesCounted ==
    /\ pc = "loop" => diffPosition >= BodyLinesBefore(lines, idx)
    /\ (pc = "done" /\ result # NULL) => result >= BodyLinesBefore(lines, idx + 1)

\* --------------------------------------------------------------- C5
\* C5: the diff-position counter never decreases during a scan, a hunk
\* header, the second and later ones included, leaves it as it is, it changes
\* on no removed line, and the value returned is the counter as incremented on
\* a line that is not removed.
C5_CounterCumulative ==
    /\ [][diffPosition' >= diffPosition]_vars
    /\ [][(pc = "loop" /\ idx <= Len(lines)
            /\ (IsHeader(lines[idx]) \/ lines[idx] = RemovedLine))
              => diffPosition' = diffPosition]_vars
    /\ []((pc = "done" /\ result # NULL) =>
            /\ result = diffPosition
            /\ result >= 1
            /\ lines[idx] # RemovedLine
            /\ ~IsHeader(lines[idx]))

\* The scan has passed a removed line and a second hunk header with a counter
\* above 0, and has returned a position.
C5_Witness ==
    /\ pc = "done"
    /\ result > 1
    /\ \E i, j, k \in 1..idx :
          /\ i < j /\ j < k
          /\ IsHeader(lines[i]) /\ ~IsHeader(lines[j]) /\ lines[j] # RemovedLine
          /\ IsHeader(lines[k])
    /\ \E i \in 1..idx : lines[i] = RemovedLine

\* --------------------------------------------------------------- C6
AbsentOrEmpty(p) == p \in {UndefinedPatch, NullPatch, StringPatch(<<>>)}

\* C6: an undefined, null or empty patch makes getDiffPosition return null
\* for every sourceLine, with no line scanned and no exception.
C6_AbsentPatch ==
    (pc # "entry" /\ AbsentOrEmpty(patch)) =>
        /\ pc = "done"
        /\ result = NULL
        /\ idx = 0
        /\ lines = <<>>

C6_Witness ==
    pc = "done" /\ patch = StringPatch(<<>>) /\ lineNumber = 0 /\ result = NULL

\* --------------------------------------------------------------- C7
\* sourceLine lies above the first hunk.
BeforeFirstHunk(ls, ln) == ln < ls[1].newStart

\* sourceLine lies in the unchanged region between two hunks.
BetweenHunks(ls, ln) ==
    LET nums == NewFileNumbers(ls)
    IN \E h \in 2..Len(ls) :
          /\ IsHeader(ls[h])
          /\ ln < ls[h].newStart
          /\ \A i \in 1..(h - 1) : nums[i] < ln
          /\ \A g \in 1..(h - 1) : IsHeader(ls[g]) => ls[g].newStart <= ln

\* C7: for a patch that starts with a hunk header and whose hunks have
\* increasing newStart, a sourceLine before the first hunk and a sourceLine
\* between two hunks make getDiffPosition return null.
C7_OutsideHunks ==
    (pc = "done" /\ WellFormed(PatchLines(patch))
        /\ (BeforeFirstHunk(PatchLines(patch), lineNumber)
            \/ BetweenHunks(PatchLines(patch), lineNumber))) =>
        result = NULL

\* --------------------------------------------------------------- C8
\* The comment names a file of the pull request and its line has a diff
\* position in that file's patch.
Resolvable(prFiles, c) ==
    /\ Find(prFiles, c.path) # 0
    /\ getDiffPosition(prFiles[Find(prFiles, c.path)].patch, c.line) # NULL

\* C8: postReviewComments never hands createReview a comment whose file is
\* not in the pull request or whose line has no diff position; it hands over
\* the other comments, in their order, in one call; it makes no call when no
\* comment is left; and no exception leaves it.
C8_DroppedNotPosted ==
    /\ pc # "threw"
    /\ Len(reviews) <= 1
    /\ \A r \in 1..Len(reviews) : \A k \in 1..Len(reviews[r]) :
          LET e == reviews[r][k]
              f == Find(pullRequestDiff, e.path)
          IN /\ f # 0
             /\ e.position >= 1
             /\ \E i \in 1..Len(comments) :
                   /\ comments[i].path = e.path
                   /\ e.position = getDiffPosition(pullRequestDiff[f].patch, comments[i].line)
    /\ (pc = "done" /\ caught # "listFiles" /\ Len(comments) > 0) =>
          LET Keep(c) == Resolvable(pullRequestDiff, c)
              kept == SelectSeq(comments, Keep)
          IN IF kept = <<>> THEN reviews = <<>>
             ELSE /\ Len(reviews) = 1
                  /\ Len(reviews[1]) = Len(kept)
                  /\ \A k \in 1..Len(kept) :
                        /\ reviews[1][k].path = kept[k].path
                        /\ variant = "basic" => reviews[1][k].body = kept[k].body
                        /\ reviews[1][k].position =
                             getDiffPosition(
                                 pullRequestDiff[Find(pullRequestDiff, kept[k].path)].patch,
                                 kept[k].line)

\* Of two comments one was dropped and the other was posted.
C8_Witness ==
    /\ pc = "done"
    /\ caught = "none"
    /\ Len(comments) = 2
    /\ ~Resolvable(pullRequestDiff, comments[1])
    /\ Len(reviews) = 1
    /\ Len(reviews[1]) = 1
    /\ reviews[1][1].path = comments[2].path

\* The (line, message) pair of a comment of analyzeFiles.
Finding(c) == <<c.position, c.body.message, c.body.arg>>

\* C9: the findings reported for one file never contain two entries with an
\* identical (line, message) pair.
C9_NoDuplicateFindings ==
    \A i, j \in 1..Len(comments) :
        (i < j /\ comments[i].path = comments[j].path)
            => Finding(comments[i]) # Finding(comments[j])

\* The issues of the report, one after the other, each with the file of its
\* group.
RECURSIVE FlatReport(_)
FlatReport(body) ==
    IF Len(body) = 0 THEN <<>>
    ELSE [n \in 1..Len(body[1].issues) |-> [file |-> body[1].file, issue |-> body[1].issues[n]]]
         \o FlatReport(Tail(body))

FirstIndex(fs, file) == CHOOSE k \in 1..Len(fs) : fs[k] = file /\ \A m \in 1..(k - 1) : fs[m] # file

\* what the analyzer emits for the file at a path of the repository
Emitted(v, r, file) ==
    IF r[file].empty THEN <<>> ELSE FileComments(v, file, analyzeCode(r[file], file))

\* C10: in the report of a run the comments are grouped by file path, the
\* groups are in the order in which the files first appear in the file list
\* of the pull request, and the comments of one file are in the order in
\* which the analyzer emitted them.
C10_GroupedInFileOrder ==
    (pc = "done" /\ Len(commentBody) > 0) =>
        LET flat == FlatReport(commentBody)
            OfFile(file) ==
                LET Own(e) == e.file = file
                    own == SelectSeq(flat, Own)
                IN [n \in 1..Len(own) |-> own[n].issue]
        IN /\ Len(flat) = Len(comments)
           /\ \A n \in 1..Len(flat) :
                 /\ \E k \in 1..Len(files) : files[k] = flat[n].file
                 /\ flat[n].issue.path = flat[n].file
           /\ \A m, n \in 1..Len(flat) :
                 m < n => FirstIndex(files, flat[m].file) <= FirstIndex(files, flat[n].file)
           /\ variant = "aiSwitch" =>
                 \A m, n \in 1..Len(commentBody) :
                     m # n => commentBody[m].file # commentBody[n].file
           /\ \A k \in 1..Len(files) :
                 OfFile(files[k]) \in {<<>>, Emitted(variant, repo, files[k])}
           /\ \A k \in 1..Len(files) :
                 (OfFile(files[k]) = <<>>) =>
                     \A n \in 1..Len(comments) : comments[n].path # files[k]

\* A report of two groups in the order of the file list, b.py before 1.js,
\* the first with two issues, for a file list that also names a file whose
\* path is an array index.
C10_Witness ==
    /\ pc = "done"
    /\ variant = "aiSwitch"
    /\ Len(issueComments) = 1
    /\ Len(commentBody) = 2
    /\ commentBody[1].file = Path("b", ".py")
    /\ Len(commentBody[1].issues) >= 2
    /\ commentBody[2].file = Path("1", ".js")
    /\ \E k \in 1..Len(files) : IsArrayIndex(files[k])

\* A .js file whose text parse() rejects.
Malformed(file, content) == EndsWith(file, ".js") /\ ~content.empty /\ ~content.parses

\* C11: analyzeCode throws on no content; on a .js file that does not parse it
\* returns no finding, and analyzeFiles goes on with the next file of the pull
\* request.
C11_ParseFailureYieldsNothing ==
    /\ [](\A f \in DOMAIN repo :
             /\ ~analyzeCodeCall(repo[f], f).threw
             /\ Malformed(f, repo[f]) => analyzeCodeCall(repo[f], f).found = <<>>)
    /\ [][(/\ pc = "analyzeFiles"
           /\ variant = "ast"
           /\ fileIdx <= Len(files)
           /\ Malformed(files[fileIdx], repo[files[fileIdx]]))
          => (/\ pc' = "analyzeFiles"
              /\ fileIdx' = fileIdx + 1
              /\ comments' = comments
              /\ failed' = failed)]_vars

\* A run that met a malformed 1.js first and reported the findings of the
\* file after it.
C11_Witness ==
    /\ pc = "done"
    /\ variant = "ast"
    /\ ~failed
    /\ Len(files) >= 2
    /\ Malformed(files[1], repo[files[1]])
    /\ Len(issueComments) = 1
    /\ Len(comments) > 0
    /\ comments[1].path = files[2]

\* C12: when the content fetch or the remote suggestion request of one file
\* fails, the file is skipped: analyzeFiles takes the next file and the run is
\* not marked failed.
C12_FailureSkipsFile ==
    [][(/\ pc = "analyzeFiles"
        /\ fetchLog' # fetchLog
        /\ caught' \in {"getContent", "aiRequest"})
       => (/\ pc' = "analyzeFiles"
           /\ fileIdx' = fileIdx + 1
           /\ failed' = failed)]_vars

\* A credential the variant needs is missing: the GitHub token, the GitHub
\* App id or private key, or the key of the remote service when it is asked.
MissingCredential ==
    \/ variant \in {"ast", "aiSwitch"} /\ ~inputs.token
    \/ variant \in {"basic", "direct"} /\ (~inputs.appId \/ ~inputs.privateKey)
    \/ UsesAi /\ ~inputs.aiApiKey

\* C13: when a required credential is missing no content is fetched, no
\* analysis or suggestion request is made and no comment is posted, and the
\* run ends marked failed.
C13_MissingCredentialAborts ==
    MissingCredential =>
        /\ fetchLog = <<>>
        /\ requestLog = <<>>
        /\ comments = <<>>
        /\ reviews = <<>>
        /\ issueComments = <<>>
        /\ pc = "done" => failed

\* How many elements of a sequence satisfy a test.
Count(seq, Test(_)) == Cardinality({i \in 1..Len(seq) : Test(seq[i])})

\* The if/else statements of a content whose two branches are brace blocks
\* of one statement.
SingleStatementIfElses(content) ==
    LET Single(piece) == piece \in {"ifElse", "ifElseObject"}
    IN Count(content, Single)

\* C14: a content with n >= 1 if/else statements whose branches are
\* single-statement brace blocks gets the if-else finding n times from the
\* regular-expression analyzeCode.
C14_IfElseOncePerOccurrence ==
    (subject.analyzer = "regex" /\ SingleStatementIfElses(subject.content) >= 1) =>
        \A k \in 1..Len(outputs) :
            LET IsIfElse(m) == m = "unnecessary if-else block"
            IN Count(outputs[k], IsIfElse) = SingleStatementIfElses(subject.content)

\* The print(...) calls of a text.
RECURSIVE PrintCalls(_)
PrintCalls(textLines) ==
    IF Len(textLines) = 0 THEN 0
    ELSE LET IsPrint(statement) == statement = "print(x)"
         IN Count(textLines[1], IsPrint) + PrintCalls(Tail(textLines))

\* C15: a .py file with six print(...) calls gets at least one 'Too many
\* print statements' finding, a .py file with exactly one gets none.
C15_PrintThreshold ==
    (subject.analyzer = "tree" /\ EndsWith(subject.filename, ".py")) =>
        \A k \in 1..Len(outputs) :
            LET IsPrintFinding(f) ==
                    f.message = "Too many print statements detected in Python file."
                n == Count(outputs[k], IsPrintFinding)
            IN /\ PrintCalls(subject.content.lines) = 6 => n >= 1
               /\ PrintCalls(subject.content.lines) = 1 => n = 0

ExpectedIfFindings(node) ==
    CASE node.a = "===" ->
            <<Suggestion("Boolean comparison can be simplified", node.b, node.line)>>
      [] node.a = "BooleanLiteral" ->
            <<Suggestion("Redundant boolean literal in if condition", "", node.line)>>
      [] OTHER -> <<>>

IsIfFinding(f) ==
    f.message \in {"Boolean comparison can be simplified",
                   "Redundant boolean literal in if condition"}

\* the scope of every declarator has a binding under the declared name
BindingsInScope(nodes) ==
    \A i \in 1..Len(nodes) :
        nodes[i].type = "VariableDeclarator" => nodes[i].b \in {"referenced", "unreferenced"}

RECURSIVE ExpectedIfFindingsOf(_)
ExpectedIfFindingsOf(nodes) ==
    IF Len(nodes) = 0 THEN <<>>
    ELSE (IF nodes[1].type = "IfStatement" THEN ExpectedIfFindings(nodes[1]) ELSE <<>>)
         \o ExpectedIfFindingsOf(Tail(nodes))

\* C17: for every conditional node visited checkIfStatement emits exactly one
\* finding at the line of the node when the test is a === comparison or a
\* boolean literal, and none otherwise; 'if (x === true) { y(); }' yields one
\* finding at line 1.
C17_OneFindingPerFlaggedIf ==
    (/\ subject.analyzer = "tree"
     /\ EndsWith(subject.filename, ".js")
     /\ subject.content.parses) =>
        LET nodes == subject.content.nodes
        IN /\ \A i \in 1..Len(nodes) :
                 nodes[i].type = "IfStatement" =>
                     /\ ~checkIfStatement(nodes[i]).threw
                     /\ checkIfStatement(nodes[i]).found = ExpectedIfFindings(nodes[i])
           /\ \A k \in 1..Len(outputs) :
                 /\ BindingsInScope(nodes) =>
                        SelectSeq(outputs[k], IsIfFinding) = ExpectedIfFindingsOf(nodes)
                 /\ subject.content = IfScenarioSource =>
                        outputs[k] = <<Suggestion("Boolean comparison can be simplified",
                                                  "x", 1)>>

\* analyzeCode was called on a program of three conditionals: the first and
\* the third are flagged, the second, a == comparison, is not.
C17_Witness ==
    /\ subject.analyzer = "tree"
    /\ Len(outputs) >= 1
    /\ subject.content = JsContent(<<Shape("IfStatement", "BooleanLiteral", "x"),
                                     Shape("IfStatement", "==", "x"),
                                     Shape("IfStatement", "===", "x")>>)
    /\ Len(outputs[1]) = 2
    /\ outputs[1][2].line = 3

\* every declared variable of the program is referenced
AllReferenced(nodes) ==
    \A i \in 1..Len(nodes) :
        nodes[i].type = "VariableDeclarator" =>
            nodes[i].b \in {"referenced", "elsewhereReferenced"}

\* C18: on a valid .js content in which every declared variable is referenced
\* analyzeCode emits no 'Unused variable detected' finding and completes the
\* tree walk.
C18_NoFalseUnused ==
    (/\ subject.analyzer = "tree"
     /\ EndsWith(subject.filename, ".js")
     /\ subject.content.parses
     /\ AllReferenced(subject.content.nodes)
     /\ Len(outputs) >= 1) =>
        /\ ~analyzeCodeTry(subject.content, subject.filename).threw
        /\ \A k \in 1..Len(outputs) :
              \A n \in 1..Len(outputs[k]) :
                  outputs[k][n].message # "Unused variable detected"

\* C19: every comment handed to createReview has a defined path, a defined
\* body and a defined anchor that is at least 1.
C19_ReviewCommentsDefined ==
    \A r \in 1..Len(reviews) :
        \A n \in 1..Len(reviews[r]) :
            /\ reviews[r][n].path # NoPath
            /\ reviews[r][n].body # NoBody
            /\ reviews[r][n].position \notin {UNDEFINED, NULL}
            /\ reviews[r][n].position >= 1

\* C20: the fallback variant anchors a comment without a line (undefined or
\* 0) at line 1; the comment is posted, with a diff position, when line 1 is
\* an added or context line of the patch of its file, and dropped when line 1
\* has no diff position.
C20_NoLineAnchoredAtLineOne ==
    [][(pc = "map" /\ variant = "fallback") =>
          \A i \in 1..Len(comments) :
              (/\ NoLineGiven(comments[i])
               /\ ~NoPathGiven(comments[i])
               /\ Find(pullRequestDiff, comments[i].path) # 0) =>
                  LET p == pullRequestDiff[Find(pullRequestDiff, comments[i].path)].patch
                      out == FormatComment(variant, pullRequestDiff, comments[i])
                  IN /\ comments'[i].line = 1
                     /\ 1 \in AddedOrContextNumbers(p) =>
                           /\ out # NullComment
                           /\ out.position >= 1
                           /\ \E k \in 1..Len(formattedComments') : formattedComments'[k] = out
                     /\ 1 \notin AddedOrContextNumbers(p) => out = NullComment]_vars

\* --------------------------------------------------------------- C21
\* C21 as amended: the variants of getDiffPosition are equivalent. The scan of
\* src/index.js returns what getDiffPosition of src/unnamed/part_002 returns
\* for the same patch and line, and neither resets the counter at a header.
C21_VariantsAgree ==
    /\ (Falsy(patch) \/ patch.type = "string") =>
          getDiffPositionPart002(patch, lineNumber) = getDiffPosition(patch, lineNumber)
    /\ pc = "done" => result = getDiffPositionPart002(patch, lineNumber)

\* A scan of a patch of two hunks for a line of the second hunk: both variants
\* return position 2, which counts the line of the first hunk.
C21_Witness ==
    /\ pc = "done"
    /\ PatchLines(patch) = TwoHunkLines
    /\ lineNumber = 3
    /\ result = 2
    /\ getDiffPositionPart002(patch, lineNumber) = 2

\* C21 as stated: for some patch of two or more hunks, the one being scanned
\* or another one, and some line two variants of getDiffPosition return
\* different positions.
C21_VariantsDiffer ==
    \E ls \in LineSeqs \cup {PatchLines(patch)}, ln \in (0..MaxSourceLine) \cup {lineNumber} :
        /\ \E i, j \in 1..Len(ls) : i < j /\ IsHeader(ls[i]) /\ IsHeader(ls[j])
        /\ getDiffPosition(StringPatch(Join(ls)), ln)
              # getDiffPositionPart002(StringPatch(Join(ls)), ln)

\* --------------------------------------------------------------- C23
\* The lines of ls up to element i that are neither a hunk header nor removed.
CountedUpTo(ls, i) ==
    Cardinality({j \in 1..i : j <= Len(ls) /\ ~IsHeader(ls[j]) /\ ls[j] # RemovedLine})

\* C23: getDiffPosition increments the counter on no hunk header, the first
\* or a later one: the counter is the number of non-removed lines read so far,
\* so that the first non-removed line of a hunk gets one more than the last
\* non-removed line of the hunk before it.
C23_NextHunkContinues ==
    /\ pc = "loop" => diffPosition = CountedUpTo(lines, idx - 1)
    /\ (pc = "done" /\ result # NULL) => result = CountedUpTo(lines, idx)
    /\ (pc = "done" /\ result # NULL) =>
          \A i \in 1..(idx - 1) :
              (/\ ~IsHeader(lines[i]) /\ lines[i] # RemovedLine
               /\ \A j \in (i + 1)..(idx - 1) : IsHeader(lines[j]) \/ lines[j] = RemovedLine)
                 => result = CountedUpTo(lines, i) + 1

\* A scan has returned the position of the first non-removed line of a second
\* hunk, the hunk before it holding a non-removed line.
C23_Witness ==
    /\ pc = "done"
    /\ result # NULL
    /\ \E h1, i, h2 \in 1..(idx - 1) :
          /\ h1 < i /\ i < h2
          /\ IsHeader(lines[h1]) /\ IsHeader(lines[h2])
          /\ ~IsHeader(lines[i]) /\ lines[i] # RemovedLine
          /\ \A j \in (i + 1)..(idx - 1) : IsHeader(lines[j]) \/ lines[j] = RemovedLine
          /\ result = CountedUpTo(lines, i) + 1

\* --------------------------------------------------------------- C24
\* C24: right after the scan has read a hunk header, with or without counts,
\* the new-file line counter is the new start of that header.
C24_HeaderSetsCurrentLine ==
    (pc = "loop" /\ idx > 1 /\ IsHeader(lines[idx - 1]))
        => currentLine = lines[idx - 1].newStart

\* --------------------------------------------------------------- C22
NoRepeats(seq) == \A i, j \in 1..Len(seq) : seq[i] = seq[j] => i = j

\* C22: a run ends; analyzeFiles goes through the list once, from the first
\* file to the last without going back; a file is fetched at most once and
\* sent to the suggestion service at most once, a failed call included, and
\* only a fetched file is sent.
C22_RunTerminates ==
    /\ <>(pc = "done")
    /\ [][pc = "analyzeFiles" => fileIdx' \in {fileIdx, fileIdx + 1}]_vars
    /\ [][pc = "analyzeFiles" /\ fileIdx' = fileIdx => pc' = "done"]_vars
    /\ [](/\ NoRepeats(fetchLog)
          /\ NoRepeats(requestLog)
          /\ Len(requestLog) <= Len(fetchLog)
          /\ \A i \in 1..Len(requestLog) : \E j \in 1..Len(fetchLog) : fetchLog[j] = requestLog[i]
          /\ \A i \in 1..Len(fetchLog) :
                \E j \in 1..Len(files) : j <= fileIdx /\ files[j] = fetchLog[i]
          /\ (pc = "done" /\ fileIdx > Len(files)) =>
                fetchLog = SelectSeq(files, isSupportedFile))

\* A run that went through a list of several files to its end, although a
\* request failed or was answered with nothing: each file was fetched once.
C22_Witness ==
    /\ pc = "done"
    /\ fileIdx > Len(files)
    /\ Len(files) >= 2
    /\ Len(fetchLog) = Len(files)
    /\ Len(requestLog) >= 2
    /\ Len(comments) < Len(requestLog)

\* --------------------------------------------------------------- C25
\* The findings of the checks of the nodes, one after the other, a check that
\* throws adding none.
RECURSIVE FindingsOf(_)
FindingsOf(nodes) ==
    IF Len(nodes) = 0 THEN <<>> ELSE Visit(nodes[1]).found \o FindingsOf(Tail(nodes))

\* The first node whose check throws; 0 when none does.
FirstThrow(nodes) ==
    LET ts == {i \in 1..Len(nodes) : Visit(nodes[i]).threw}
    IN IF ts = {} THEN 0 ELSE CHOOSE i \in ts : \A j \in ts : i <= j

\* analyzeCode was called on a .js program in which a node check throws.
WalkAborted ==
    /\ subject.analyzer = "tree"
    /\ EndsWith(subject.filename, ".js")
    /\ subject.content.parses
    /\ FirstThrow(subject.content.nodes) # 0
    /\ Len(outputs) >= 1

\* C25 as amended: when a node check throws during the tree walk, analyzeCode
\* returns the findings of the nodes before that node and nothing of the nodes
\* after it: a prefix of the findings of a complete walk, which is empty when
\* no earlier node gave a finding and the whole list when no later node gives one.
C25_PrefixReturned ==
    WalkAborted =>
        LET nodes == subject.content.nodes
            t == FirstThrow(nodes)
            complete == FindingsOf(nodes)
        IN \A k \in 1..Len(outputs) :
              /\ outputs[k] = FindingsOf(SubSeq(nodes, 1, t - 1))
              /\ Len(outputs[k]) <= Len(complete)
              /\ outputs[k] = SubSeq(complete, 1, Len(outputs[k]))

\* A walk aborted at its second node after a finding of the first node, the
\* finding of the third node being lost.
C25_Witness ==
    /\ WalkAborted
    /\ FirstThrow(subject.content.nodes) = 2
    /\ Len(outputs[1]) = 1
    /\ Len(FindingsOf(subject.content.nodes)) = 2

\* C25 as stated: the list returned by an aborted walk is not empty and is
\* strictly shorter than the findings of a complete walk.
C25_StrictNonEmptyPrefix ==
    WalkAborted =>
        LET complete == FindingsOf(subject.content.nodes)
        IN \A k \in 1..Len(outputs) :
              /\ outputs[k] # <<>>
              /\ Len(outputs[k]) < Len(complete)
              /\ outputs[k] = SubSeq(complete, 1, Len(outputs[k]))

\* --------------------------------------------------------------- C26
\* deletePreviousComments has returned.
CleanupOver == pc \in {"listFiles", "map", "createReview", "done"} /\ Len(comments) > 0

\* C26: in the variant that cleans up, a comment is deleted only before
\* createReview is called and only when there are new comments; an error of
\* the cleanup leaves postReviewComments at its listFiles call, and the review
\* is then posted as without the error; and without an error every comment of
\* a bot is deleted whether or not a new comment gets a position.
C26_CleanupBeforeReview ==
    /\ [][deleted' # deleted =>
            /\ pc = "deleteReviewComment" /\ pc' = "deleteReviewComment"
            /\ reviews = <<>> /\ reviews' = <<>>]_vars
    /\ [][reviews' # reviews => pc = "createReview" /\ deleted' = deleted]_vars
    /\ [](Len(comments) = 0 => deleted = <<>> /\ previousComments = <<>>)
    /\ [][deleteError' # deleteError => deleteError = "none" /\ pc' = "listFiles"]_vars
    /\ []((pc = "done" /\ caught = "none" /\ pullRequestDiff # <<>>
            /\ Len(FormatAll(variant, pullRequestDiff, comments)) > 0)
              => reviews = <<FormatAll(variant, pullRequestDiff, comments)>>)
    /\ []((CleanupOver /\ deleteError = "none") =>
            deleted = [i \in 1..Len(botComments) |-> botComments[i].id])
    /\ [](CleanupOver =>
            /\ botComments = SelectSeq(previousComments, IsBotComment)
            /\ Len(deleted) <= Len(botComments)
            /\ \A i \in 1..Len(deleted) : deleted[i] = botComments[i].id)

\* The run has ended with the old comments of bots deleted and no review
\* posted: every new comment was dropped for want of a position.
C26_Witness ==
    /\ pc = "done"
    /\ Len(deleted) = 2
    /\ deleteError = "none"
    /\ caught = "none"
    /\ pullRequestDiff # <<>>
    /\ Len(comments) > 0
    /\ formattedComments = <<>>
    /\ reviews = <<>>

\* A review was posted although the deletion of the second old comment failed.
C26_PostedAfterFailedDeletion ==
    /\ pc = "done"
    /\ deleteError = "deleteReviewComment"
    /\ Len(deleted) = 1
    /\ Len(botComments) = 2
    /\ Len(reviews) = 1
    /\ caught = "none"

\* --------------------------------------------------------------- C27
\* C27: with use_ai_tool, a file for which the provider returned a text (the
\* forEach call on that answer is the step recorded in caught) has a comment
\* and the run is not failed; a run that made requests and has no comment is
\* one whose answers were all empty.
C27_AiTextBecomesComment ==
    (variant = "aiSwitch" /\ inputs.useAiTool /\ requestLog # <<>>) =>
        /\ caught = "forEach" =>
              /\ ~failed
              /\ \E i \in 1..Len(comments) : comments[i].path = requestLog[Len(requestLog)]
        /\ (pc = "done" /\ ~failed /\ comments = <<>>) => caught = "none"

\* --------------------------------------------------------------- C28
\* C28: the line of a comment of the analyzeFiles that asks the remote
\* service is the number of the first line of the content that is not blank,
\* a number between 1 and the number of lines of the content.
C28_LineIsFirstTextLine ==
    variant = "basic" =>
        \A i \in 1..Len(comments) :
            LET content == repo[comments[i].path]
                line == comments[i].line
            IN /\ line \in 1..Len(content.lines)
               /\ content.lines[line] # <<>>
               /\ \A j \in 1..(line - 1) : content.lines[j] = <<>>

\* --------------------------------------------------------------- C29
\* A file name that ends in none of .js, .py, .sh, .rb and .groovy.
OtherName(f) == f.ext \notin {".js", ".py", ".sh", ".rb", ".groovy"}
NotOtherName(f) == ~OtherName(f)

\* The comments of the variants that analyze the content themselves for the
\* files fs, each fetched and analyzed in turn.
RECURSIVE CommentsOfList(_, _)
CommentsOfList(v, fs) ==
    IF Len(fs) = 0 THEN <<>>
    ELSE (IF repo[fs[1]].empty THEN <<>>
          ELSE FileComments(v, fs[1], analyzeCode(repo[fs[1]], fs[1])))
         \o CommentsOfList(v, Tail(fs))

\* C29: analyzeFiles passes over a file with another extension: the step
\* fetches nothing, asks nothing and adds no comment, no fetch, request or
\* comment ever names such a file, and the comments of a walk in which no call
\* failed are those of the list without such files.
C29_UnsupportedFileSkipped ==
    /\ [][(pc = "analyzeFiles" /\ fileIdx <= Len(files) /\ OtherName(files[fileIdx]))
            => /\ fileIdx' = fileIdx + 1
               /\ pc' = "analyzeFiles"
               /\ UNCHANGED <<comments, fetchLog, requestLog, failed, caught>>]_vars
    /\ [](/\ \A i \in 1..Len(fetchLog) : ~OtherName(fetchLog[i])
          /\ \A i \in 1..Len(requestLog) : ~OtherName(requestLog[i])
          /\ \A i \in 1..Len(comments) : ~OtherName(comments[i].path))
    /\ []((/\ pc \in {"analyzeFiles", "done"}
           /\ fileIdx > Len(files)
           /\ ~UsesAi
           /\ caught = "none")
              => comments = CommentsOfList(variant, SelectSeq(files, NotOtherName)))

\* A run has passed over the file '1' between two files that each got
\* comments, and has fetched the two other files only.
C29_Witness ==
    /\ pc = "done"
    /\ ~UsesAi
    /\ Len(files) = 3
    /\ OtherName(files[2])
    /\ fetchLog = <<files[1], files[3]>>
    /\ \E i, j \in 1..Len(comments) : comments[i].path = files[1] /\ comments[j].path = files[3]
    /\ Len(issueComments) = 1

====
